---- MODULE Spec2Model ----
(***************************************************************************)
(* A model of make_differential_dfxml (dfxml/bin/make_differential_dfxml.py)*)
(* as a state machine.  The two input documents are sequences of parse     *)
(* events; one step of the model is one iteration of the record loop, or   *)
(* one whole matching pass, or the output assembly.                        *)
(*                                                                         *)
(* Python's None is written 0 for a partition or an inode, NoName for a    *)
(* file name, NoOffset for a partition offset and NoFtype for a file       *)
(* system type.  A dict is a sequence of [k, v] entries in insertion order.*)
(***************************************************************************)
EXTENDS Integers, Sequences, FiniteSets, TLC

VARIABLES
    infiles,                   \* the positional arguments of the command line
    pre, post,                 \* the two paths given by the caller
    docs,                      \* path -> the event stream Objects.iterparse yields
    cfg,                       \* the keyword arguments
    pc,                        \* position in the function
    infile,                    \* index of the outer loop in [pre, post]
    pos,                       \* number of events of infile consumed
    old_fis, new_fis,
    old_fis_unalloc, new_fis_unalloc,
    old_volumes, new_volumes, matched_volumes,
    volumes_encounter_order,
    fileobjects_changed, fileobjects_unchanged,
    fileobjects_renamed, fileobjects_deleted,
    d,                         \* children appended to the returned DFXMLObject
    warnings,                  \* number of _logger.warning calls so far
    exc,                       \* the exception raised, if any
    direct_left                \* history: old_fis and new_fis as the record loop of
                               \* the second document left them (what lines 278-281 log)

vars == << infiles, pre, post, docs, cfg, pc, infile, pos, old_fis, new_fis,
           old_fis_unalloc, new_fis_unalloc, old_volumes, new_volumes,
           matched_volumes, volumes_encounter_order, fileobjects_changed,
           fileobjects_unchanged, fileobjects_renamed, fileobjects_deleted,
           d, warnings, exc, direct_left >>

----------------------------------------------------------------------------
(* Values *)

NoName == "<None>"
NoOffset == -1
NoFtype == "<None>"
NoVol == << NoOffset, NoFtype >>
NoHash == "<None>"

\* A file object no record of either input is: the value of original_fileobject
\* before it is set, and the attributes of a fresh Objects.FileObject().
NoRec ==
    [ snap |-> 0, idx |-> 0, vol |-> NoVol, partition |-> 0, inode |-> 0,
      filename |-> NoName, alloc |-> FALSE, sha1 |-> NoHash, uid |-> 0 ]

\* The attributes a file record comparison looks at.
FileProps == { "partition", "inode", "filename", "alloc", "sha1", "uid" }

----------------------------------------------------------------------------
(* Insertion-ordered dictionaries *)

Has(dict, k) == \E j \in 1..Len(dict) : dict[j].k = k

Get(dict, k) == dict[CHOOSE j \in 1..Len(dict) : dict[j].k = k].v

\* dict[k] = v: an existing key keeps its place in the iteration order.
Put(dict, k, v) ==
    IF Has(dict, k)
    THEN [ j \in 1..Len(dict) |->
             IF dict[j].k = k THEN [ k |-> k, v |-> v ] ELSE dict[j] ]
    ELSE Append(dict, [ k |-> k, v |-> v ])

\* Mutation of Without: the entry is read and left in the dictionary.
Without_Kept(dict, k) == dict

\* dict.pop(k): the dictionary without the entry of k.
RECURSIVE Without(_, _)
Without(dict, k) ==
    IF dict = << >> THEN << >>
    ELSE IF Head(dict).k = k THEN Tail(dict)
    ELSE << Head(dict) >> \o Without(Tail(dict), k)

Keys(dict) == [ j \in 1..Len(dict) |-> dict[j].k ]

Range(s) == { s[j] : j \in 1..Len(s) }

\* The elements of a sequence, each once, in order of first appearance.
RECURSIVE Distinct(_)
Distinct(s) ==
    IF s = << >> THEN << >>
    ELSE LET front == Distinct(SubSeq(s, 1, Len(s) - 1))
             last == s[Len(s)]
         IN IF last \in Range(front) THEN front ELSE Append(front, last)

----------------------------------------------------------------------------
(* Helpers of the program *)

\* str.lower() on the file system type labels of the model.
Lower(s) ==
    CASE s = "NTFS" -> "ntfs"
      [] s = "Ntfs" -> "ntfs"
      [] s = "FAT" -> "fat"
      [] OTHER -> s

\* Mutation of _lower_ftype_str: the label is returned as it is spelled.
_lower_ftype_str_Raw(vo) == vo.ftype

_lower_ftype_str(vo) == IF vo.ftype = NoFtype THEN NoFtype ELSE Lower(vo.ftype)

\* os.path.basename on the file names of the model.
basename(fn) ==
    CASE fn = "d/." -> "."
      [] fn = "d/.." -> ".."
      [] fn = "d/a" -> "a"
      [] fn = "d/" -> ""
      [] OTHER -> fn

\* Mutation of ignorable_name: only the directory entries are recognized.
ignorable_name_Dots(fn) ==
    IF fn = NoName THEN FALSE ELSE basename(fn) \in { ".", ".." }

ignorable_name(fn) ==
    IF fn = NoName THEN FALSE
    ELSE basename(fn) \in { ".", "..", "$FAT1", "$FAT2", "$OrphanFiles" }

\* The default of the ignore_filename_function argument.
ignore_filename_function(fn) == ignorable_name(fn)

\* Mutation of _expected_diff_modes: one more mode is let through.
_expected_diff_modes_Any == { "all", "idifference", "none" }

_expected_diff_modes == { "all", "idifference" }

diff_mask_set ==
    IF cfg.diff_mode = "idifference"
    THEN { "atime", "byte_runs", "crtime", "ctime", "filename", "filesize",
           "md5", "mtime", "sha1" }
    ELSE { }

content_diffs == { "md5", "sha1", "sha256" }

\* Mutation of compare_to_original: an attribute is reported when either
\* object has a value for it.
compare_to_original_Present(new_obj, old_fobj, file_ignores) ==
    { p \in { "sha1", "filename" } \ file_ignores :
        new_obj[p] \notin { NoHash, NoName } \/ old_fobj[p] \notin { NoHash, NoName } }

\* FileObject.compare_to_original(file_ignores=...): the names of the compared
\* attributes, outside the ignore set, whose values differ.
compare_to_original(new_obj, old_fobj, file_ignores) ==
    { p \in FileProps \ file_ignores : new_obj[p] # old_fobj[p] }

\* A file object together with its original_fileobject and its diffs.
Linked(new_obj, old_fobj) ==
    [ rec |-> new_obj, orig |-> old_fobj,
      diffs |-> compare_to_original(new_obj, old_fobj, cfg.ignore_properties) ]

\* Mutation of KeyOf: ignore_properties is not consulted.
KeyOf_Full(obj) == << obj.partition, obj.inode, obj.filename >>

\* The identity key of a file, affected by ignore_properties.
KeyOf(obj) ==
    << IF "partition" \in cfg.ignore_properties THEN 0 ELSE obj.partition,
       IF "inode" \in cfg.ignore_properties THEN 0 ELSE obj.inode,
       IF "filename" \in cfg.ignore_properties THEN NoName ELSE obj.filename >>

----------------------------------------------------------------------------
(* The record loop *)

InfilePath == IF infile = 1 THEN pre ELSE post

Stream == docs[InfilePath]

AtEvent == pc = "read" /\ pos < Len(Stream)

Event == Stream[pos + 1]

NoException == "<None>"

\* Lines 513-557: main().  The positional arguments are declared nargs="+",
\* so argparse exits on an empty list; any other count but two raises at line
\* 532; otherwise the function is called once, with the first path as pre
\* and the second as post.
main ==
    /\ pc = "main"
    /\ IF Len(infiles) = 0
       THEN pc' = "raised" /\ exc' = "SystemExit" /\ UNCHANGED << pre, post >>
       ELSE IF Len(infiles) # 2
       THEN pc' = "raised" /\ exc' = "ValueError" /\ UNCHANGED << pre, post >>
       ELSE pc' = "start" /\ exc' = exc /\ pre' = infiles[1] /\ post' = infiles[2]
    /\ UNCHANGED << infiles, docs, cfg, direct_left, infile, pos, old_fis, new_fis,
                    old_fis_unalloc, new_fis_unalloc, old_volumes, new_volumes,
                    matched_volumes, volumes_encounter_order,
                    fileobjects_changed, fileobjects_unchanged,
                    fileobjects_renamed, fileobjects_deleted, d, warnings >>

\* Lines 86-88: the differencing mode is checked before anything else.
Start ==
    /\ pc = "start"
    /\ IF cfg.diff_mode \notin _expected_diff_modes
       THEN pc' = "raised" /\ exc' = "ValueError"
       ELSE pc' = "infile" /\ exc' = exc
    /\ UNCHANGED << infiles, pre, post, docs, cfg, direct_left, infile, pos, old_fis, new_fis,
                    old_fis_unalloc, new_fis_unalloc, old_volumes, new_volumes,
                    matched_volumes, volumes_encounter_order,
                    fileobjects_changed, fileobjects_unchanged,
                    fileobjects_renamed, fileobjects_deleted, d, warnings >>

\* Lines 146-162: the head of "for infile in [pre, post]".
BeginInfile ==
    /\ pc = "infile"
    /\ old_fis' = new_fis
    /\ new_fis' = << >>
    /\ old_volumes' =
         LET fold[j \in 0..Len(matched_volumes)] ==
               IF j = 0 THEN new_volumes
               ELSE Put(fold[j - 1], matched_volumes[j].k, matched_volumes[j].v)
         IN fold[Len(matched_volumes)]
    /\ new_volumes' = << >>
    /\ matched_volumes' = << >>
    /\ old_fis_unalloc' = new_fis_unalloc
    /\ new_fis_unalloc' = << >>
    /\ pos' = 0
    /\ pc' = "read"
    /\ UNCHANGED << infiles, pre, post, docs, cfg, direct_left, infile, volumes_encounter_order,
                    fileobjects_changed, fileobjects_unchanged,
                    fileobjects_renamed, fileobjects_deleted, d, warnings, exc >>

\* Lines 165-172 and 209-211: an object that is neither a volume nor a file.
SkipObject ==
    /\ AtEvent
    /\ Event.type \notin { "volume", "file" }
    /\ pos' = pos + 1
    /\ UNCHANGED << infiles, pre, post, docs, cfg, direct_left, pc, infile, old_fis, new_fis,
                    old_fis_unalloc, new_fis_unalloc, old_volumes, new_volumes,
                    matched_volumes, volumes_encounter_order,
                    fileobjects_changed, fileobjects_unchanged,
                    fileobjects_renamed, fileobjects_deleted, d, warnings, exc >>

\* VolumeObject.compare_to_original(): the volume attributes that differ.
VolumeDiffs(new_obj, old_vobj) ==
    { p \in { "partition_offset", "ftype_str" } :
        IF p = "ftype_str" THEN new_obj.ftype # old_vobj.ftype
        ELSE new_obj.offset # old_vobj.offset }

NoVolObj == [ snap |-> 0, idx |-> 0, offset |-> NoOffset, ftype |-> NoFtype ]

VolObj(ev) == [ snap |-> infile, idx |-> pos + 1, offset |-> ev.offset, ftype |-> ev.ftype ]

\* Mutation of OffsetMissing: a volume without an offset is taken as it is.
OffsetMissing_Never(offset) == FALSE

\* Line 179.
OffsetMissing(offset) == offset = NoOffset

\* Lines 173-208: a volume event.
ReadVolume ==
    /\ AtEvent
    /\ Event.type = "volume"
    /\ pos' = pos + 1
    /\ LET new_obj == VolObj(Event)
           offset == Event.offset
           ftype_str == _lower_ftype_str(Event)
           key == << offset, ftype_str >>
       IN IF Event.ev = "end"
          THEN UNCHANGED << pc, exc, warnings, old_volumes, new_volumes,
                            matched_volumes, volumes_encounter_order >>
          ELSE IF OffsetMissing(offset)
          THEN /\ pc' = "raised"
               /\ exc' = "AttributeError"
               /\ UNCHANGED << warnings, old_volumes, new_volumes,
                               matched_volumes, volumes_encounter_order >>
          ELSE /\ UNCHANGED << pc, exc >>
               /\ warnings' = IF Has(new_volumes, key) THEN warnings + 1 ELSE warnings
               /\ IF old_volumes # << >> /\ Has(old_volumes, key)
                  THEN LET old_vobj == Get(old_volumes, key).vol
                       IN /\ old_volumes' = Without(old_volumes, key)
                          /\ matched_volumes' =
                               Put(matched_volumes, key,
                                   [ vol |-> new_obj, orig |-> old_vobj,
                                     diffs |-> VolumeDiffs(new_obj, old_vobj) ])
                          /\ UNCHANGED << new_volumes, volumes_encounter_order >>
                  ELSE /\ new_volumes' =
                            Put(new_volumes, key,
                                [ vol |-> new_obj, orig |-> NoVolObj, diffs |-> { } ])
                       /\ volumes_encounter_order' =
                            Put(volumes_encounter_order, key,
                                Len(new_volumes') + Len(old_volumes) + Len(matched_volumes))
                       /\ UNCHANGED << old_volumes, matched_volumes >>
    /\ UNCHANGED << infiles, pre, post, docs, cfg, direct_left, infile, old_fis, new_fis,
                    old_fis_unalloc, new_fis_unalloc,
                    fileobjects_changed, fileobjects_unchanged,
                    fileobjects_renamed, fileobjects_deleted, d >>

\* The file object of a file event, with its partition number normalized
\* (lines 224-230).
FileObj(ev) ==
    [ snap |-> infile, idx |-> pos + 1, vol |-> ev.vol,
      partition |->
        IF ev.vol = NoVol THEN 0
        ELSE Get(volumes_encounter_order,
                 << ev.vol[1], _lower_ftype_str([ ftype |-> ev.vol[2] ]) >>),
      inode |-> ev.inode, filename |-> ev.filename, alloc |-> ev.alloc,
      sha1 |-> ev.sha1, uid |-> ev.uid ]

\* The volume of a file event has been given an encounter ordinal.
VolumeKnown(ev) ==
    \/ ev.vol = NoVol
    \/ Has(volumes_encounter_order,
           << ev.vol[1], _lower_ftype_str([ ftype |-> ev.vol[2] ]) >>)

\* Mutation of AppendTo: the list of a key is replaced, not extended.
AppendTo_Replaced(dict, key, obj) == Put(dict, key, << obj >>)

\* dict[key].append(obj) on a defaultdict(list).
AppendTo(dict, key, obj) ==
    IF Has(dict, key) THEN Put(dict, key, Append(Get(dict, key), obj))
    ELSE Put(dict, key, << obj >>)

\* Mutation of DirectDiffs: the mask set is not applied.
DirectDiffs_Unmasked(diffs) == diffs \ cfg.ignore_properties

\* Lines 256-259: the diffs that count for a direct lookup.
DirectDiffs(diffs) ==
    LET _diffs == diffs \ cfg.ignore_properties
    IN IF diff_mask_set # { } THEN _diffs \cap diff_mask_set ELSE _diffs

\* Mutation of Retain: an unmodified file is never kept.
Retain_Dropped(coll, lk) == coll

\* Mutation of Retain: an unmodified file is kept, requested or not.
Retain_Always(coll, lk) == Append(coll, lk)

\* Lines 265-268 and 392-393: an unmodified file is kept only if requested.
Retain(coll, lk) == IF cfg.retain_unchanged THEN Append(coll, lk) ELSE coll

\* Lines 213-271: a file event.
ReadFile ==
    /\ AtEvent
    /\ Event.type = "file"
    /\ pos' = pos + 1
    /\ IF ignore_filename_function(Event.filename)
       THEN UNCHANGED << pc, exc, new_fis, old_fis, new_fis_unalloc,
                         fileobjects_changed, fileobjects_unchanged >>
       ELSE IF ~VolumeKnown(Event)
       THEN /\ pc' = "raised"
            /\ exc' = "KeyError"
            /\ UNCHANGED << new_fis, old_fis, new_fis_unalloc,
                            fileobjects_changed, fileobjects_unchanged >>
       ELSE LET new_obj == FileObj(Event)
                key == KeyOf(new_obj)
            IN /\ UNCHANGED << pc, exc >>
               /\ IF ~new_obj.alloc
                  THEN /\ new_fis_unalloc' = AppendTo(new_fis_unalloc, key, new_obj)
                       /\ UNCHANGED << new_fis, old_fis, fileobjects_changed,
                                       fileobjects_unchanged >>
                  ELSE IF InfilePath = pre
                  THEN /\ new_fis' = Put(new_fis, key, new_obj)
                       /\ UNCHANGED << old_fis, new_fis_unalloc, fileobjects_changed,
                                       fileobjects_unchanged >>
                  ELSE IF Has(old_fis, key)
                  THEN LET old_fobj == Get(old_fis, key)
                           lk == Linked(new_obj, old_fobj)
                       IN /\ old_fis' = Without(old_fis, key)
                          /\ IF DirectDiffs(lk.diffs) # { }
                             THEN /\ fileobjects_changed' = Append(fileobjects_changed, lk)
                                  /\ UNCHANGED fileobjects_unchanged
                             ELSE /\ fileobjects_unchanged' = Retain(fileobjects_unchanged, lk)
                                  /\ UNCHANGED fileobjects_changed
                          /\ UNCHANGED << new_fis, new_fis_unalloc >>
                  ELSE /\ new_fis' = Put(new_fis, key, new_obj)
                       /\ UNCHANGED << old_fis, new_fis_unalloc, fileobjects_changed,
                                       fileobjects_unchanged >>
    /\ UNCHANGED << infiles, pre, post, docs, cfg, direct_left, infile, old_fis_unalloc,
                    old_volumes, new_volumes, matched_volumes,
                    volumes_encounter_order, fileobjects_renamed,
                    fileobjects_deleted, d, warnings >>

\* Lines 273-275 and the end of the outer loop: after the first path, and
\* after any path equal to pre, the rest of the loop body is skipped.
EndOfInfile ==
    /\ pc = "read"
    /\ pos = Len(Stream)
    /\ IF InfilePath = pre
       THEN IF infile = 1
            THEN infile' = 2 /\ pc' = "infile"
            ELSE infile' = infile /\ pc' = "done"
       ELSE infile' = infile /\ pc' = "rename"
    /\ direct_left' =
         IF InfilePath = pre THEN direct_left
         ELSE [ old_fis |-> old_fis, new_fis |-> new_fis ]
    /\ UNCHANGED << infiles, pre, post, docs, cfg, pos, old_fis, new_fis,
                    old_fis_unalloc, new_fis_unalloc, old_volumes, new_volumes,
                    matched_volumes, volumes_encounter_order,
                    fileobjects_changed, fileobjects_unchanged,
                    fileobjects_renamed, fileobjects_deleted, d, warnings, exc >>

----------------------------------------------------------------------------
(* Rename detection, lines 284-326 *)

\* (partition, inode) -> {filename}, in order of first appearance.
_make_name_map(dict) ==
    LET ks == Distinct([ j \in 1..Len(dict) |-> << dict[j].k[1], dict[j].k[2] >> ])
    IN [ j \in 1..Len(ks) |->
           [ k |-> ks[j],
             v |-> { dict[i].k[3] : i \in { i \in 1..Len(dict) :
                                             << dict[i].k[1], dict[i].k[2] >> = ks[j] } } ] ]

TheOne(S) == CHOOSE x \in S : TRUE

\* Mutation of HashAgrees: the SHA-1 values are compared whatever
\* rename_requires_hash says.
HashAgrees_Required(old_fobj, new_obj) == old_fobj.sha1 = new_obj.sha1

\* Mutation of HashAgrees: the SHA-1 values are never compared.
HashAgrees_Ignored(old_fobj, new_obj) == TRUE

\* Lines 312-317: the SHA-1 test on a one-to-one candidate.
HashAgrees(old_fobj, new_obj) ==
    IF cfg.rename_requires_hash THEN old_fobj.sha1 = new_obj.sha1 ELSE TRUE

\* Mutation of RenameIteration: the two tests "len(...) != 1" are missing,
\* and some name of each side is taken.
RenameIteration_Guess(st, old_inode_names, new_inode_names, new_inode_name_key) ==
    IF ~Has(old_inode_names, new_inode_name_key) THEN st
    ELSE LET partition == new_inode_name_key[1]
             inode == new_inode_name_key[2]
             old_name == TheOne(Get(old_inode_names, new_inode_name_key))
             new_name == TheOne(Get(new_inode_names, new_inode_name_key))
         IN [ old_fis |-> Without(st.old_fis, << partition, inode, old_name >>),
              new_fis |-> Without(st.new_fis, << partition, inode, new_name >>),
              renamed |-> Append(st.renamed,
                                 Linked(Get(st.new_fis, << partition, inode, new_name >>),
                                        Get(st.old_fis, << partition, inode, old_name >>))) ]

\* Mutation of RenameIteration: the original is linked but not taken out of
\* old_fis.
RenameIteration_Kept(st, old_inode_names, new_inode_names, new_inode_name_key) ==
    LET partition == new_inode_name_key[1]
        inode == new_inode_name_key[2]
    IN IF Cardinality(Get(new_inode_names, new_inode_name_key)) # 1 THEN st
       ELSE IF ~Has(old_inode_names, new_inode_name_key) THEN st
       ELSE IF Cardinality(Get(old_inode_names, new_inode_name_key)) # 1 THEN st
       ELSE LET old_name == TheOne(Get(old_inode_names, new_inode_name_key))
                new_name == TheOne(Get(new_inode_names, new_inode_name_key))
                old_fobj == Get(st.old_fis, << partition, inode, old_name >>)
                new_obj == Get(st.new_fis, << partition, inode, new_name >>)
            IN IF ~HashAgrees(old_fobj, new_obj) THEN st
               ELSE [ old_fis |-> st.old_fis,
                      new_fis |-> Without(st.new_fis, << partition, inode, new_name >>),
                      renamed |-> Append(st.renamed, Linked(new_obj, old_fobj)) ]

\* One iteration of the loop of lines 303-326.  st holds old_fis, new_fis and
\* fileobjects_renamed; the two name maps are those built before the loop.
RenameIteration(st, old_inode_names, new_inode_names, new_inode_name_key) ==
    LET partition == new_inode_name_key[1]
        inode == new_inode_name_key[2]
    IN IF Cardinality(Get(new_inode_names, new_inode_name_key)) # 1 THEN st
       ELSE IF ~Has(old_inode_names, new_inode_name_key) THEN st
       ELSE IF Cardinality(Get(old_inode_names, new_inode_name_key)) # 1 THEN st
       ELSE LET old_name == TheOne(Get(old_inode_names, new_inode_name_key))
                new_name == TheOne(Get(new_inode_names, new_inode_name_key))
                old_fobj == Get(st.old_fis, << partition, inode, old_name >>)
                new_obj == Get(st.new_fis, << partition, inode, new_name >>)
            IN IF ~HashAgrees(old_fobj, new_obj) THEN st
               ELSE [ old_fis |-> Without(st.old_fis, << partition, inode, old_name >>),
                      new_fis |-> Without(st.new_fis, << partition, inode, new_name >>),
                      renamed |-> Append(st.renamed, Linked(new_obj, old_fobj)) ]

RenameLoop ==
    LET old_inode_names == _make_name_map(old_fis)
        new_inode_names == _make_name_map(new_fis)
        ks == Keys(new_inode_names)
        run[j \in 0..Len(ks)] ==
          IF j = 0
          THEN [ old_fis |-> old_fis, new_fis |-> new_fis, renamed |-> << >> ]
          ELSE RenameIteration(run[j - 1], old_inode_names, new_inode_names, ks[j])
    IN run[Len(ks)]

RenamePass ==
    /\ pc = "rename"
    /\ LET st == RenameLoop
       IN /\ old_fis' = st.old_fis
          /\ new_fis' = st.new_fis
          /\ fileobjects_renamed' = st.renamed
    /\ pc' = "inode"
    /\ UNCHANGED << infiles, pre, post, docs, cfg, direct_left, infile, pos,
                    old_fis_unalloc, new_fis_unalloc, old_volumes, new_volumes,
                    matched_volumes, volumes_encounter_order,
                    fileobjects_changed, fileobjects_unchanged,
                    fileobjects_deleted, d, warnings, exc >>

----------------------------------------------------------------------------
(* Inode number changes, lines 332-364 *)

\* (partition, filename) -> inode; a later key with the same path overwrites
\* the inode of an earlier one.
_make_inode_map(dict) ==
    LET retdict[j \in 0..Len(dict)] ==
          IF j = 0 THEN << >>
          ELSE Put(retdict[j - 1], << dict[j].k[1], dict[j].k[3] >>, dict[j].k[2])
    IN retdict[Len(dict)]

\* The number of warnings _make_inode_map logs: one per key whose path was
\* already in the map.
InodeMapWarnings(dict) == Len(dict) - Len(_make_inode_map(dict))

\* Mutation of InodeIteration: the pair is kept only if a diff survives the
\* ignore set and the mask set, as in the direct lookups.
InodeIteration_Masked(st, old_name_inodes, new_name_inodes, name_inode_key) ==
    IF ~Has(old_name_inodes, name_inode_key) THEN st
    ELSE LET partition == name_inode_key[1]
             name == name_inode_key[2]
             old_key == << partition, Get(old_name_inodes, name_inode_key), name >>
             new_key == << partition, Get(new_name_inodes, name_inode_key), name >>
             lk == Linked(Get(st.new_fis, new_key), Get(st.old_fis, old_key))
         IN [ old_fis |-> Without(st.old_fis, old_key),
              new_fis |-> Without(st.new_fis, new_key),
              changed |-> IF (lk.diffs \ cfg.ignore_properties) \cap diff_mask_set # { }
                          THEN Append(st.changed, lk) ELSE st.changed ]

\* One iteration of the loop of lines 352-361.
InodeIteration(st, old_name_inodes, new_name_inodes, name_inode_key) ==
    IF ~Has(old_name_inodes, name_inode_key) THEN st
    ELSE LET partition == name_inode_key[1]
             name == name_inode_key[2]
             old_key == << partition, Get(old_name_inodes, name_inode_key), name >>
             new_key == << partition, Get(new_name_inodes, name_inode_key), name >>
             old_fobj == Get(st.old_fis, old_key)
             new_obj == Get(st.new_fis, new_key)
         IN [ old_fis |-> Without(st.old_fis, old_key),
              new_fis |-> Without(st.new_fis, new_key),
              changed |-> Append(st.changed, Linked(new_obj, old_fobj)) ]

InodeLoop ==
    LET old_name_inodes == _make_inode_map(old_fis)
        new_name_inodes == _make_inode_map(new_fis)
        ks == Keys(new_name_inodes)
        run[j \in 0..Len(ks)] ==
          IF j = 0
          THEN [ old_fis |-> old_fis, new_fis |-> new_fis,
                 changed |-> fileobjects_changed ]
          ELSE InodeIteration(run[j - 1], old_name_inodes, new_name_inodes, ks[j])
    IN run[Len(ks)]

InodePass ==
    /\ pc = "inode"
    /\ LET st == InodeLoop
       IN /\ old_fis' = st.old_fis
          /\ new_fis' = st.new_fis
          /\ fileobjects_changed' = st.changed
    /\ warnings' = warnings + InodeMapWarnings(old_fis) + InodeMapWarnings(new_fis)
    /\ pc' = "unalloc"
    /\ UNCHANGED << infiles, pre, post, docs, cfg, direct_left, infile, pos,
                    old_fis_unalloc, new_fis_unalloc, old_volumes, new_volumes,
                    matched_volumes, volumes_encounter_order,
                    fileobjects_unchanged, fileobjects_renamed,
                    fileobjects_deleted, d, exc >>

----------------------------------------------------------------------------
(* Unallocated files, lines 367-400 *)

\* Lines 384-387: the diffs that count for two unallocated files.
UnallocDiffs(diffs) ==
    LET _diffs == diffs \ diff_mask_set
    IN IF diff_mask_set # { } THEN _diffs \cap diff_mask_set ELSE _diffs

\* Mutation of UnallocIteration: the test "len(old_fis_unalloc[key]) == 1" is
\* missing, and the last of the first document's list is taken.
UnallocIteration_Guess(st, key) ==
    IF Len(Get(st.new_fis_unalloc, key)) # 1 THEN st
    ELSE IF Has(st.old_fis_unalloc, key) /\ Get(st.old_fis_unalloc, key) # << >>
    THEN LET olds == Get(st.old_fis_unalloc, key)
             lk == Linked(Get(st.new_fis_unalloc, key)[1], olds[Len(olds)])
         IN [ st EXCEPT
                !.old_fis_unalloc = Put(@, key, SubSeq(olds, 1, Len(olds) - 1)),
                !.new_fis_unalloc = Put(@, key, << >>),
                !.changed = Append(@, lk) ]
    ELSE st

\* One iteration of the loop of lines 370-400.
UnallocIteration(st, key) ==
    IF Len(Get(st.new_fis_unalloc, key)) # 1 THEN st
    ELSE IF Has(st.old_fis_unalloc, key)
    THEN IF Len(Get(st.old_fis_unalloc, key)) = 1
         THEN LET old_fobj == Get(st.old_fis_unalloc, key)[1]
                  new_obj == Get(st.new_fis_unalloc, key)[1]
                  lk == Linked(new_obj, old_fobj)
                  popped == [ st EXCEPT
                                !.old_fis_unalloc = Put(@, key, << >>),
                                !.new_fis_unalloc = Put(@, key, << >>) ]
              IN IF UnallocDiffs(lk.diffs) # { }
                 THEN [ popped EXCEPT !.changed = Append(@, lk) ]
                 ELSE [ popped EXCEPT !.unchanged = Retain(@, lk) ]
         ELSE st
    ELSE IF Has(st.old_fis, key)
    THEN LET old_fobj == Get(st.old_fis, key)
             new_obj == Get(st.new_fis_unalloc, key)[1]
         IN [ st EXCEPT
                !.old_fis = Without(@, key),
                !.new_fis_unalloc = Put(@, key, << >>),
                !.deleted = Append(@, Linked(new_obj, old_fobj)) ]
    ELSE st

UnallocLoop ==
    LET ks == Keys(new_fis_unalloc)
        run[j \in 0..Len(ks)] ==
          IF j = 0
          THEN [ old_fis |-> old_fis,
                 old_fis_unalloc |-> old_fis_unalloc,
                 new_fis_unalloc |-> new_fis_unalloc,
                 changed |-> fileobjects_changed,
                 unchanged |-> fileobjects_unchanged,
                 deleted |-> << >> ]
          ELSE UnallocIteration(run[j - 1], ks[j])
    IN run[Len(ks)]

UnallocPass ==
    /\ pc = "unalloc"
    /\ LET st == UnallocLoop
       IN /\ old_fis' = st.old_fis
          /\ old_fis_unalloc' = st.old_fis_unalloc
          /\ new_fis_unalloc' = st.new_fis_unalloc
          /\ fileobjects_changed' = st.changed
          /\ fileobjects_unchanged' = st.unchanged
          /\ fileobjects_deleted' = st.deleted
    /\ pc' = "output"
    /\ UNCHANGED << infiles, pre, post, docs, cfg, direct_left, infile, pos, new_fis,
                    old_volumes, new_volumes, matched_volumes,
                    volumes_encounter_order, fileobjects_renamed,
                    d, warnings, exc >>

----------------------------------------------------------------------------
(* Output, lines 414-508 *)

\* Mutation of VolumeEntries: the volumes of old_volumes come first.
VolumeEntries_OldFirst ==
    [ j \in 1..Len(old_volumes) |->
        [ k |-> old_volumes[j].k, v |-> old_volumes[j].v, annos |-> { "deleted" } ] ]
    \o [ j \in 1..Len(matched_volumes) |->
        [ k |-> matched_volumes[j].k, v |-> matched_volumes[j].v,
          annos |-> IF matched_volumes[j].v.diffs # { } THEN { "modified" } ELSE { } ] ]
    \o [ j \in 1..Len(new_volumes) |->
        [ k |-> new_volumes[j].k, v |-> new_volumes[j].v, annos |-> { "new" } ] ]

\* Mutation of VolumeEntries: a matched volume is never annotated.
VolumeEntries_Unmodified ==
    [ j \in 1..Len(new_volumes) |->
        [ k |-> new_volumes[j].k, v |-> new_volumes[j].v, annos |-> { "new" } ] ]
    \o [ j \in 1..Len(matched_volumes) |->
        [ k |-> matched_volumes[j].k, v |-> matched_volumes[j].v, annos |-> { } ] ]
    \o [ j \in 1..Len(old_volumes) |->
        [ k |-> old_volumes[j].k, v |-> old_volumes[j].v, annos |-> { "deleted" } ] ]

\* Lines 416-425: the annotations of the volume objects.
VolumeEntries ==
    [ j \in 1..Len(new_volumes) |->
        [ k |-> new_volumes[j].k, v |-> new_volumes[j].v, annos |-> { "new" } ] ]
    \o [ j \in 1..Len(matched_volumes) |->
        [ k |-> matched_volumes[j].k, v |-> matched_volumes[j].v,
          annos |-> IF matched_volumes[j].v.diffs # { } THEN { "modified" } ELSE { } ] ]
    \o [ j \in 1..Len(old_volumes) |->
        [ k |-> old_volumes[j].k, v |-> old_volumes[j].v, annos |-> { "deleted" } ] ]

Veo(j) == Get(volumes_encounter_order, VolumeEntries[j].k)

\* Line 437: an encounter ordinal is met a second time.
AppendersCollide ==
    \E i, j \in 1..Len(VolumeEntries) : i < j /\ Veo(i) = Veo(j)

\* The keys of appenders; 0 is the DFXMLObject itself.
AppenderKeys == { Veo(j) : j \in 1..Len(VolumeEntries) } \cup { 0 }

VolumeChild(j) ==
    [ kind |-> "volume", container |-> 0, ord |-> Veo(j),
      vol |-> VolumeEntries[j].v.vol, origvol |-> VolumeEntries[j].v.orig,
      rec |-> NoRec, orig |-> NoRec,
      diffs |-> VolumeEntries[j].v.diffs, annos |-> VolumeEntries[j].annos ]

\* Mutation of FileChild: every file object is appended to the DFXMLObject.
FileChild_TopLevel(partition, rec, orig, diffs, annos) ==
    [ kind |-> "file", container |-> 0, ord |-> 0,
      vol |-> NoVolObj, origvol |-> NoVolObj,
      rec |-> rec, orig |-> orig, diffs |-> diffs, annos |-> annos ]

\* A file object appended to appenders[partition] (0 is the DFXMLObject).
FileChild(partition, rec, orig, diffs, annos) ==
    [ kind |-> "file", container |-> partition, ord |-> 0,
      vol |-> NoVolObj, origvol |-> NoVolObj,
      rec |-> rec, orig |-> orig, diffs |-> diffs, annos |-> annos ]

\* The values of a dict of lists, in iteration order.
RECURSIVE Flatten(_)
Flatten(dict) ==
    IF dict = << >> THEN << >> ELSE Head(dict).v \o Flatten(Tail(dict))

Values(dict) == [ j \in 1..Len(dict) |-> dict[j].v ]

\* Mutation of _maybe_match_attr: annotate_matches is not consulted.
_maybe_match_attr_Always == { "matched" }

\* Lines 449-454.
_maybe_match_attr == IF cfg.annotate_matches THEN { "matched" } ELSE { }

ModifiedAnno(diffs) == IF content_diffs \cap diffs # { } THEN { "modified" } ELSE { }

ChangedAnno(diffs) == IF diffs \ content_diffs # { } THEN { "changed" } ELSE { }

RenamedAnno(diffs) == IF "filename" \in diffs THEN { "renamed" } ELSE { }

\* Lines 457-465: what is left of the second file's objects is new.
NewChildren ==
    LET fis == Values(new_fis) \o Flatten(new_fis_unalloc)
    IN [ j \in 1..Len(fis) |->
           FileChild(fis[j].partition, fis[j], NoRec, { }, { "new" }) ]

\* Lines 466-476.
DeletedChildren ==
    [ j \in 1..Len(fileobjects_deleted) |->
        LET fi == fileobjects_deleted[j]
        IN FileChild(fi.rec.partition, fi.rec, fi.orig, fi.diffs,
                     ChangedAnno(fi.diffs) \cup ModifiedAnno(fi.diffs)
                       \cup RenamedAnno(fi.diffs) \cup { "deleted" }
                       \cup _maybe_match_attr) ]

\* Mutation of PlaceholderChildren: the placeholder is appended to the
\* DFXMLObject, whatever the partition of its original.
PlaceholderChildren_TopLevel ==
    LET ofis == Values(old_fis) \o Flatten(old_fis_unalloc)
    IN [ j \in 1..Len(ofis) |-> FileChild(0, NoRec, ofis[j], { }, { "deleted" }) ]

\* Lines 477-488: a fresh file object for each object left of the first file.
PlaceholderChildren ==
    LET ofis == Values(old_fis) \o Flatten(old_fis_unalloc)
    IN [ j \in 1..Len(ofis) |->
           FileChild(ofis[j].partition, NoRec, ofis[j], { }, { "deleted" }) ]

\* Mutation of RenamedChildren: 'renamed' is the only status.
RenamedChildren_Only ==
    [ j \in 1..Len(fileobjects_renamed) |->
        LET fi == fileobjects_renamed[j]
        IN FileChild(fi.rec.partition, fi.rec, fi.orig, fi.diffs,
                     { "renamed" } \cup _maybe_match_attr) ]

\* Lines 489-497.
RenamedChildren ==
    [ j \in 1..Len(fileobjects_renamed) |->
        LET fi == fileobjects_renamed[j]
        IN FileChild(fi.rec.partition, fi.rec, fi.orig, fi.diffs,
                     ModifiedAnno(fi.diffs) \cup ChangedAnno(fi.diffs)
                       \cup { "renamed" } \cup _maybe_match_attr) ]

\* Lines 498-505.
ChangedChildren ==
    [ j \in 1..Len(fileobjects_changed) |->
        LET fi == fileobjects_changed[j]
        IN FileChild(fi.rec.partition, fi.rec, fi.orig, fi.diffs,
                     ModifiedAnno(fi.diffs) \cup ChangedAnno(fi.diffs)
                       \cup _maybe_match_attr) ]

\* Lines 506-508.
UnchangedChildren ==
    [ j \in 1..Len(fileobjects_unchanged) |->
        LET fi == fileobjects_unchanged[j]
        IN FileChild(fi.rec.partition, fi.rec, fi.orig, fi.diffs, _maybe_match_attr) ]

FileChildren ==
    NewChildren \o DeletedChildren \o PlaceholderChildren \o RenamedChildren
      \o ChangedChildren \o UnchangedChildren

\* appenders[partition] fails for a file object.
AppenderMissing ==
    \E j \in 1..Len(FileChildren) : FileChildren[j].container \notin AppenderKeys

\* The whole of the output stage.  An exception leaves nothing returned.
Output ==
    /\ pc = "output"
    /\ IF AppendersCollide
       THEN pc' = "raised" /\ exc' = "ValueError" /\ d' = d
       ELSE IF AppenderMissing
       THEN pc' = "raised" /\ exc' = "KeyError" /\ d' = d
       ELSE /\ pc' = "done"
            /\ exc' = exc
            /\ d' = [ j \in 1..Len(VolumeEntries) |-> VolumeChild(j) ] \o FileChildren
    /\ UNCHANGED << infiles, pre, post, docs, cfg, direct_left, infile, pos, old_fis, new_fis,
                    old_fis_unalloc, new_fis_unalloc, old_volumes, new_volumes,
                    matched_volumes, volumes_encounter_order,
                    fileobjects_changed, fileobjects_unchanged,
                    fileobjects_renamed, fileobjects_deleted, warnings >>

Next ==
    \/ main
    \/ Start
    \/ BeginInfile
    \/ SkipObject
    \/ ReadVolume
    \/ ReadFile
    \/ EndOfInfile
    \/ RenamePass
    \/ InodePass
    \/ UnallocPass
    \/ Output

----------------------------------------------------------------------------
(* Inputs *)

FileEv(vol, inode, filename, alloc, sha1, uid) ==
    [ type |-> "file", ev |-> "end", offset |-> NoOffset, ftype |-> NoFtype,
      vol |-> vol, inode |-> inode, filename |-> filename, alloc |-> alloc,
      sha1 |-> sha1, uid |-> uid ]

VolEv(ev, offset, ftype) ==
    [ type |-> "volume", ev |-> ev, offset |-> offset, ftype |-> ftype,
      vol |-> NoVol, inode |-> 0, filename |-> NoName, alloc |-> FALSE,
      sha1 |-> NoHash, uid |-> 0 ]

DfxmlEv(ev) ==
    [ type |-> "dfxml", ev |-> ev, offset |-> NoOffset, ftype |-> NoFtype,
      vol |-> NoVol, inode |-> 0, filename |-> NoName, alloc |-> FALSE,
      sha1 |-> NoHash, uid |-> 0 ]

FileEvs(Vols, Inodes, Names, Allocs, Hashes, Uids) ==
    { FileEv(v, i, n, a, h, u) :
        v \in Vols, i \in Inodes, n \in Names, a \in Allocs, h \in Hashes, u \in Uids }

SeqsUpTo(S, n) == UNION { [ 1..m -> S ] : m \in 0..n }

Cfgs(Modes, Retains, Annotates, Hashes, Ignores) ==
    [ diff_mode : Modes, retain_unchanged : Retains, annotate_matches : Annotates,
      rename_requires_hash : Hashes, ignore_properties : Ignores ]

\* Every local of the function as its declaration leaves it.
InitLocals ==
    /\ infile = 1
    /\ pos = 0
    /\ old_fis = << >> /\ new_fis = << >>
    /\ old_fis_unalloc = << >> /\ new_fis_unalloc = << >>
    /\ old_volumes = << >> /\ new_volumes = << >> /\ matched_volumes = << >>
    /\ volumes_encounter_order = << >>
    /\ fileobjects_changed = << >> /\ fileobjects_unchanged = << >>
    /\ fileobjects_renamed = << >> /\ fileobjects_deleted = << >>
    /\ d = << >>
    /\ warnings = 0
    /\ exc = NoException
    /\ direct_left = [ old_fis |-> << >>, new_fis |-> << >> ]

\* Two paths, the documents behind them and the keyword arguments.
InitArgs(Posts, CfgSet, DocsA, DocsB) ==
    /\ pre = "pre.dfxml"
    /\ post \in Posts
    /\ cfg \in CfgSet
    /\ \E a \in DocsA, b \in DocsB :
         docs = [ p \in { pre, post } |-> IF p = pre THEN a ELSE b ]
    /\ infiles = << pre, post >>

\* The state at the start of main with two paths on the command line and the
\* options that give the keyword arguments.
InitWith(Posts, CfgSet, DocsA, DocsB) ==
    /\ InitArgs(Posts, CfgSet, DocsA, DocsB)
    /\ pc = "main"
    /\ InitLocals

\* The state at a call of make_differential_dfxml from another module.
InitCall(Posts, CfgSet, DocsA, DocsB) ==
    /\ InitArgs(Posts, CfgSet, DocsA, DocsB)
    /\ pc = "start"
    /\ InitLocals

----------------------------------------------------------------------------
(* Specifications *)

\* Bounds: the longest document of allocated and unallocated files, and the longest
\* document of allocated files alone.
MaxLen == 2
MaxLenAlloc == 3

Inodes == { 1, 2 }

\* One volume, with the files inside it.
Vol0 == << 0, "NTFS" >>

VolumeDocs(Names) ==
    { << DfxmlEv("begin"), VolEv("begin", 0, "NTFS") >> \o fs \o << VolEv("end", 0, "NTFS") >> :
        fs \in SeqsUpTo(FileEvs({ Vol0 }, Inodes, Names, { TRUE }, { "h1" }, { 0 }), 1) }

BaseCfgs == Cfgs({ "all" }, { TRUE }, { FALSE }, { FALSE }, { { } })

InitVolumes ==
    InitWith({ "post.dfxml" }, BaseCfgs,
             VolumeDocs({ "a", "b" }), VolumeDocs({ "a", "b" }) \cup { << >> })

\* Allocated and unallocated files of two names, duplicates of an identity
\* key included.
NameEvs == FileEvs({ NoVol }, { 1 }, { "a", "b" }, BOOLEAN, { "h1" }, { 0 })

\* Allocated and unallocated files of one name over the inodes, and a second
\* name.
MatchEvs ==
    FileEvs({ NoVol }, Inodes, { "a" }, BOOLEAN, { "h1" }, { 0 })
      \cup FileEvs({ NoVol }, { 1 }, { "b" }, BOOLEAN, { "h1" }, { 0 })

AllocEvs == FileEvs({ NoVol }, Inodes, { "a", "b" }, { TRUE }, { "h1" }, { 0 })

InitMatch ==
    \/ InitWith({ "post.dfxml", "pre.dfxml" },
                Cfgs({ "all" }, BOOLEAN, { FALSE }, { FALSE }, { { } }),
                SeqsUpTo(NameEvs, MaxLen), SeqsUpTo(NameEvs, MaxLen))
    \/ InitWith({ "post.dfxml" }, BaseCfgs,
                SeqsUpTo(MatchEvs, MaxLen), SeqsUpTo(MatchEvs, MaxLen))
    \/ InitWith({ "post.dfxml" }, BaseCfgs,
                SeqsUpTo(AllocEvs, MaxLenAlloc), SeqsUpTo(AllocEvs, MaxLenAlloc))

\* An identity key without its inode.
InitIgnoreInode ==
    InitWith({ "post.dfxml" },
             Cfgs({ "all" }, { TRUE }, { FALSE }, { FALSE }, { { "inode" } }),
             SeqsUpTo(AllocEvs, MaxLen), SeqsUpTo(AllocEvs, MaxLen))

\* Files with a name the default ignore_filename_function filters out.
IgnoredEvs == FileEvs({ NoVol }, { 1 }, { "a", "d/." }, BOOLEAN, { "h1" }, { 0 })

InitIgnored ==
    InitWith({ "post.dfxml" }, BaseCfgs,
             SeqsUpTo(IgnoredEvs, MaxLen), SeqsUpTo(IgnoredEvs, MaxLen))

Init == InitMatch \/ InitIgnoreInode \/ InitIgnored \/ InitVolumes

Spec == Init /\ [][Next]_vars

\* Allocated files under four names of one inode, and one more inode for one
\* of the names.
RenameEvs ==
    FileEvs({ NoVol }, { 1 }, { "a", "b", "c", "d" }, { TRUE }, { "h1" }, { 0 })
      \cup { FileEv(NoVol, 2, "c", TRUE, "h1", 0) }

\* Allocated files of one inode with two SHA-1 values.
HashEvs == FileEvs({ NoVol }, { 1 }, { "a", "b" }, { TRUE }, { "h1", "h2" }, { 0 })

InitRename ==
    \/ InitWith({ "post.dfxml" }, BaseCfgs,
                SeqsUpTo(RenameEvs, MaxLenAlloc), SeqsUpTo(RenameEvs, MaxLen))
    \/ InitWith({ "post.dfxml" },
                Cfgs({ "all" }, { TRUE }, BOOLEAN, BOOLEAN, { { }, { "inode" } }),
                SeqsUpTo(HashEvs, MaxLen), SeqsUpTo(HashEvs, MaxLen))
    \/ InitVolumes

SpecRename == InitRename /\ [][Next]_vars

\* Allocated files of one name under three inodes, and a second name.
InodeEvs ==
    FileEvs({ NoVol }, { 1, 2, 3 }, { "a" }, { TRUE }, { "h1" }, { 0 })
      \cup { FileEv(NoVol, 1, "b", TRUE, "h1", 0) }

\* Allocated and unallocated files of one inode.
UnallocEvs == FileEvs({ NoVol }, { 1 }, { "a", "b" }, BOOLEAN, { "h1" }, { 0 })

BothModes == Cfgs({ "all", "idifference" }, { TRUE }, { FALSE }, { FALSE }, { { } })

InitInode ==
    \/ InitWith({ "post.dfxml" }, BothModes,
                SeqsUpTo(InodeEvs, MaxLenAlloc), SeqsUpTo(InodeEvs, MaxLen))
    \/ InitWith({ "post.dfxml" }, BothModes,
                SeqsUpTo(InodeEvs, MaxLen), SeqsUpTo(InodeEvs, MaxLenAlloc))
    \/ InitWith({ "post.dfxml" }, BaseCfgs,
                SeqsUpTo(UnallocEvs, MaxLenAlloc), SeqsUpTo(UnallocEvs, MaxLenAlloc))
    \/ InitWith({ "post.dfxml" },
                Cfgs({ "all" }, { TRUE }, { FALSE }, { FALSE }, { { "filename" } }),
                SeqsUpTo(InodeEvs, MaxLen), SeqsUpTo(InodeEvs, MaxLen))
    \/ InitVolumes

SpecInode == InitInode /\ [][Next]_vars

\* Files of one identity key, allocated or not, with two SHA-1 values and two
\* values of an attribute outside the mask set; one more inode.  The first
\* document holds one value of each attribute.
AttrEvsA ==
    FileEvs({ NoVol }, { 1 }, { "a" }, BOOLEAN, { "h1" }, { 0 })
      \cup { FileEv(NoVol, 2, "a", TRUE, "h1", 0) }

AttrEvsB ==
    FileEvs({ NoVol }, { 1 }, { "a" }, BOOLEAN, { "h1", "h2" }, { 0, 1 })
      \cup { FileEv(NoVol, 2, "a", TRUE, "h1", 0), FileEv(NoVol, 3, "a", TRUE, "h1", 0) }

InitAttr ==
    \/ InitWith({ "post.dfxml" },
                Cfgs({ "all", "idifference" }, BOOLEAN, { FALSE }, { FALSE }, { { } }),
                SeqsUpTo(AttrEvsA, MaxLen), SeqsUpTo(AttrEvsB, MaxLen))
    \/ InitVolumes

SpecAttr == InitAttr /\ [][Next]_vars

\* Files of one identity key in the first document; in the second, that key
\* with other attribute values, the same inode under another name and the
\* same name under another inode.
AnnoEvsA == FileEvs({ NoVol }, { 1 }, { "a" }, BOOLEAN, { "h1" }, { 0 })

AnnoEvsB ==
    FileEvs({ NoVol }, { 1 }, { "a" }, { TRUE }, { "h1", "h2" }, { 0, 1 })
      \cup FileEvs({ NoVol }, { 1 }, { "a" }, { FALSE }, { "h1", "h2" }, { 0 })
      \cup FileEvs({ NoVol }, { 1 }, { "b" }, { TRUE }, { "h1", "h2" }, { 0 })
      \cup { FileEv(NoVol, 2, "a", TRUE, "h1", 0) }

InitAnno ==
    \/ InitWith({ "post.dfxml" },
                Cfgs({ "all", "idifference" }, { TRUE }, BOOLEAN, { FALSE }, { { } }),
                SeqsUpTo(AnnoEvsA, MaxLen), SeqsUpTo(AnnoEvsB, MaxLen))
    \/ InitVolumes

SpecAnno == InitAnno /\ [][Next]_vars

\* Allocated files of one inode, under a name and under a name the default
\* ignore_filename_function filters out; both paths, and identity keys with
\* and without the file name.
DirectEvsA == FileEvs({ NoVol }, { 1 }, { "a", "d/." }, { TRUE }, { "h1" }, { 0 })

DirectEvsB == FileEvs({ NoVol }, { 1 }, { "a", "d/." }, { TRUE }, { "h1", "h2" }, { 0, 1 })

InitDirect ==
    \/ InitWith({ "post.dfxml", "pre.dfxml" },
                Cfgs({ "all", "idifference" }, BOOLEAN, { FALSE }, { FALSE },
                     { { }, { "filename" } }),
                SeqsUpTo(DirectEvsA, MaxLen), SeqsUpTo(DirectEvsB, MaxLen))
    \/ InitVolumes

SpecDirect == InitDirect /\ [][Next]_vars

\* A file of one inode with two SHA-1 values and a file of another inode in
\* the first document; in the second, the first inode under the other
\* file's name, and what a direct lookup and the unallocated pass can pair.
HashEvsA ==
    FileEvs({ NoVol }, { 1 }, { "a" }, { TRUE }, { "h1", "h2" }, { 0 })
      \cup { FileEv(NoVol, 2, "b", TRUE, "h1", 0) }

HashEvsB ==
    FileEvs({ NoVol }, { 1 }, { "b" }, { TRUE }, { "h1", "h2" }, { 0 })
      \cup FileEvs({ NoVol }, { 1 }, { "a" }, BOOLEAN, { "h1" }, { 0 })

InitHash ==
    \/ InitWith({ "post.dfxml" },
                Cfgs({ "all" }, { TRUE }, { FALSE }, BOOLEAN, { { } }),
                SeqsUpTo(HashEvsA, MaxLen), SeqsUpTo(HashEvsB, MaxLen))
    \/ InitVolumes

SpecHash == InitHash /\ [][Next]_vars

\* Bound: the most volumes, or files outside a volume, of a document.
MaxVols == 2

\* A volume with the files inside it.
VolumeBlock(k, fs) ==
    << VolEv("begin", k[1], k[2]) >> \o fs \o << VolEv("end", k[1], k[2]) >>

VolFile(k) == FileEv(k, 1, "a", TRUE, "h1", 0)

\* Volumes at three offsets, one of them with its file system type in two
\* spellings, with a file or empty; and a file outside any volume.  A
\* document may hold a key twice.
Blocks ==
    { VolumeBlock(k, << VolFile(k) >>) :
        k \in { << 0, "NTFS" >>, << 0, "ntfs" >>, << 1, "NTFS" >> } }
      \cup { VolumeBlock(k, << >>) : k \in { << 0, "NTFS" >>, << 2, "NTFS" >> } }
      \cup { << VolFile(NoVol) >> }

RECURSIVE Concat(_)
Concat(ss) == IF ss = << >> THEN << >> ELSE Head(ss) \o Concat(Tail(ss))

BlockDocs == { << DfxmlEv("begin") >> \o Concat(bs) : bs \in SeqsUpTo(Blocks, MaxVols) }

InitBlocks == InitWith({ "post.dfxml" }, BaseCfgs, BlockDocs, BlockDocs)

SpecVolumes == InitBlocks /\ [][Next]_vars

\* Allocated files over two inodes and two names, one of them with another
\* SHA-1 in the second document; identity keys without the inode, without
\* the file name, and without both.
IgnoreEvsA ==
    { FileEv(NoVol, 1, "a", TRUE, "h1", 0), FileEv(NoVol, 2, "a", TRUE, "h1", 0),
      FileEv(NoVol, 1, "b", TRUE, "h1", 0) }

IgnoreEvsB == IgnoreEvsA \cup { FileEv(NoVol, 2, "a", TRUE, "h2", 0) }

\* One file inside a volume at one of two offsets, or outside any volume, for
\* identity keys without the partition.
PartitionDocs ==
    { << DfxmlEv("begin") >> \o Concat(bs) :
        bs \in SeqsUpTo({ VolumeBlock(k, << VolFile(k) >>) :
                            k \in { << 0, "NTFS" >>, << 1, "NTFS" >> } }
                          \cup { << VolFile(NoVol) >> }, MaxVols) }

InitIgnore ==
    \/ InitWith({ "post.dfxml", "pre.dfxml" },
                Cfgs({ "all" }, BOOLEAN, { FALSE }, { FALSE },
                     { { "inode" }, { "filename" }, { "inode", "filename" } }),
                SeqsUpTo(IgnoreEvsA, MaxLen), SeqsUpTo(IgnoreEvsB, MaxLen))
    \/ InitWith({ "post.dfxml" },
                Cfgs({ "all" }, { TRUE }, { FALSE }, { FALSE }, { { "partition" } }),
                PartitionDocs, PartitionDocs)

SpecIgnore == InitIgnore /\ [][Next]_vars

\* Files named as pseudo-entries ("." of a directory, $OrphanFiles), a file
\* with a name, and a file without one.
PseudoEvs ==
    FileEvs({ NoVol }, { 1 }, { "a", "d/." }, BOOLEAN, { "h1" }, { 0 })
      \cup FileEvs({ NoVol }, { 1 }, { "$OrphanFiles", NoName }, { TRUE }, { "h1" }, { 0 })

InitPseudo ==
    \/ InitWith({ "post.dfxml", "pre.dfxml" }, BaseCfgs,
                SeqsUpTo(PseudoEvs, MaxLen), SeqsUpTo(PseudoEvs, MaxLen))
    \/ InitVolumes

SpecPseudo == InitPseudo /\ [][Next]_vars

\* Volumes with and without a partition offset, with a file or empty, and a
\* file outside any volume.
OffsetBlocks ==
    { VolumeBlock(k, << VolFile(k) >>) : k \in { << 0, "NTFS" >>, << NoOffset, "NTFS" >> } }
      \cup { VolumeBlock(k, << >>) : k \in { << 1, "NTFS" >>, << NoOffset, "FAT" >> } }
      \cup { << VolFile(NoVol) >> }

OffsetDocs ==
    { << DfxmlEv("begin") >> \o Concat(bs) : bs \in SeqsUpTo(OffsetBlocks, MaxVols) }

InitOffsets == InitWith({ "post.dfxml", "pre.dfxml" }, BaseCfgs, OffsetDocs, OffsetDocs)

SpecOffsets == InitOffsets /\ [][Next]_vars

\* Bound: the most positional arguments of a command line.
MaxInfiles == 3

\* Command lines of up to MaxInfiles paths; calls with differencing modes in
\* and outside the expected ones.
InitMain ==
    \/ /\ pre = "pre.dfxml" /\ post = "post.dfxml"
       /\ infiles \in SeqsUpTo({ "pre.dfxml", "post.dfxml" }, MaxInfiles)
       /\ cfg \in Cfgs({ "all", "idifference" }, { TRUE }, { FALSE }, { FALSE }, { { } })
       /\ \E a, b \in SeqsUpTo(NameEvs, 1) :
            docs = [ p \in { pre, post } |-> IF p = pre THEN a ELSE b ]
       /\ pc = "main"
       /\ InitLocals
    \/ InitCall({ "post.dfxml" },
                Cfgs({ "all", "idifference", "none", "ALL" }, { TRUE }, { FALSE },
                     { FALSE }, { { } }),
                SeqsUpTo(NameEvs, MaxLen), SeqsUpTo(NameEvs, 1))
    \/ InitVolumes

SpecMain == InitMain /\ [][Next]_vars

\* A file of the first document, live or unallocated, another name of its
\* inode and another name of another inode; in the second, its inode under another name with two SHA-1
\* values, its name under another inode, and its key unallocated.
OrderEvsA ==
    { FileEv(NoVol, 1, "a", TRUE, "h1", 0), FileEv(NoVol, 1, "a", FALSE, "h1", 0),
      FileEv(NoVol, 1, "c", TRUE, "h1", 0), FileEv(NoVol, 2, "c", TRUE, "h1", 0) }

OrderEvsB ==
    { FileEv(NoVol, 1, "b", TRUE, "h1", 0), FileEv(NoVol, 1, "b", TRUE, "h2", 0),
      FileEv(NoVol, 2, "a", TRUE, "h1", 0), FileEv(NoVol, 1, "a", FALSE, "h1", 0) }

InitOrder ==
    \/ InitWith({ "post.dfxml" },
                Cfgs({ "all" }, { TRUE }, { FALSE }, BOOLEAN, { { } }),
                SeqsUpTo(OrderEvsA, MaxLen), SeqsUpTo(OrderEvsB, MaxLenAlloc))
    \/ InitVolumes

SpecOrder == InitOrder /\ [][Next]_vars

----------------------------------------------------------------------------
(* Vocabulary of the properties *)

NoDup(s) == \A i, j \in 1..Len(s) : i # j => s[i] # s[j]

Count(s, x) == Cardinality({ j \in 1..Len(s) : s[j] = x })

Recs(coll) == [ j \in 1..Len(coll) |-> coll[j].rec ]

Origs(coll) == [ j \in 1..Len(coll) |-> coll[j].orig ]

IsFirst(r) == r.snap = 1

IsSecond(r) == r.snap = 2

IsLinked(r) == r # NoRec

\* The four lists of paired file objects.
Paired ==
    fileobjects_deleted \o fileobjects_renamed \o fileobjects_changed
      \o fileobjects_unchanged

\* Every place an object of the second document is held in: the maps of
\* what is so far new, and the lists.
SecondHeld ==
    SelectSeq(Values(new_fis) \o Flatten(new_fis_unalloc), IsSecond) \o Recs(Paired)

\* Every place an object of the first document is held in once the second
\* document is being read: the maps of what is so far deleted, and the
\* original links.
FirstHeld ==
    SelectSeq(Values(old_fis) \o Flatten(old_fis_unalloc), IsFirst) \o Origs(Paired)

FileChildrenOf(out) == SelectSeq(out, LAMBDA c : c.kind = "file")

\* The file objects of one document as the record loop makes them, with the
\* partition numbers of the encounter order as it stands.
DocRecs(n) ==
    LET path == IF n = 1 THEN pre ELSE post
        doc == docs[path]
        js == { j \in 1..Len(doc) : doc[j].type = "file" }
    IN { [ snap |-> n, idx |-> j, vol |-> doc[j].vol,
           partition |->
             IF doc[j].vol = NoVol \/ ~VolumeKnown(doc[j]) THEN 0
             ELSE Get(volumes_encounter_order,
                      << doc[j].vol[1], Lower(doc[j].vol[2]) >>),
           inode |-> doc[j].inode, filename |-> doc[j].filename,
           alloc |-> doc[j].alloc, sha1 |-> doc[j].sha1, uid |-> doc[j].uid ] :
         j \in js }

Returned == pc = "done"

\* The collections of the result, as the output stage reads them.
NewColl == Values(new_fis) \o Flatten(new_fis_unalloc)

PlaceholderColl == Values(old_fis) \o Flatten(old_fis_unalloc)

----------------------------------------------------------------------------
(* C1 *)

\* C1: in every state, no file object of the second document is held in more
\* than one of the collections new / deleted / renamed / changed / unchanged,
\* and no file object of the first document is the original of more than one
\* object or both an original and still in a map of the first document (from
\* which the deletion placeholders are made); the returned children repeat no
\* object and no original.
C1_Disjoint ==
    /\ NoDup(SecondHeld)
    /\ (infile = 2 /\ post # pre) => NoDup(FirstHeld)
    /\ NoDup(SelectSeq(Recs(FileChildrenOf(d)), IsLinked))
    /\ NoDup(SelectSeq(Origs(FileChildrenOf(d)), IsLinked))

\* A run that returned a paired object, a new object and a placeholder.
C1_Witness ==
    /\ Returned
    /\ Len(Paired) >= 1
    /\ NewColl # << >>
    /\ PlaceholderColl # << >>
    /\ Len(d) = Len(Paired) + Len(NewColl) + Len(PlaceholderColl)

----------------------------------------------------------------------------
(* C2 *)

NoIgnoredNames ==
    \A n \in { 1, 2 } : \A r \in DocRecs(n) : ~ignore_filename_function(r.filename)

\* No two allocated files of document n have the same identity key.
UniqueAllocKeys(n) ==
    \A r1, r2 \in DocRecs(n) :
        (r1.alloc /\ r2.alloc /\ KeyOf(r1) = KeyOf(r2)) => r1 = r2

\* No two unallocated files of document n have the same identity key.
UniqueUnallocKeys(n) ==
    \A r1, r2 \in DocRecs(n) :
        (~r1.alloc /\ ~r2.alloc /\ KeyOf(r1) = KeyOf(r2)) => r1 = r2

\* Every file of the second document is one returned object, and every file
\* of the first document is the original of one returned object.
AccountedOnce ==
    /\ \A r \in DocRecs(2) : Count(Recs(FileChildrenOf(d)), r) = 1
    /\ \A r \in DocRecs(1) : Count(Origs(FileChildrenOf(d)), r) = 1

\* C2 as claimed: with retain_unchanged and no name ignored, a returned
\* result accounts for every file of both documents exactly once, whatever
\* the identity keys.
C2_AsClaimed ==
    (Returned /\ cfg.retain_unchanged /\ NoIgnoredNames) => AccountedOnce

\* C2: with retain_unchanged and no name ignored, a result returned for
\* two different paths, in each of whose documents no two allocated files
\* share an identity key, accounts for every file of both documents exactly
\* once.
C2_Accounted ==
    ( /\ Returned /\ cfg.retain_unchanged /\ NoIgnoredNames
      /\ post # pre
      /\ UniqueAllocKeys(1) /\ UniqueAllocKeys(2) )
    => AccountedOnce

\* A returned result with a paired object, a new object, a placeholder and
\* an unallocated file.
C2_Witness ==
    /\ Returned /\ cfg.retain_unchanged /\ NoIgnoredNames /\ post # pre
    /\ UniqueAllocKeys(1) /\ UniqueAllocKeys(2)
    /\ \E r \in DocRecs(2) : ~r.alloc
    /\ fileobjects_unchanged # << >>
    /\ NewColl # << >>
    /\ PlaceholderColl # << >>
    /\ AccountedOnce

----------------------------------------------------------------------------
(* C3 *)

SameRecords == docs[pre] = docs[post]

AllUnchanged ==
    /\ \A r \in DocRecs(2) :
         (r.alloc /\ ~ignore_filename_function(r.filename))
           => r \in Range(Recs(fileobjects_unchanged))
    /\ fileobjects_changed = << >>
    /\ NewColl = << >>
    /\ fileobjects_deleted = << >>
    /\ PlaceholderColl = << >>
    /\ fileobjects_renamed = << >>

\* C3 as claimed: the same records in both documents and retain_unchanged
\* leave every allocated file of the second document unchanged and nothing
\* changed, new, deleted or renamed.
C3_AsClaimed ==
    (Returned /\ cfg.retain_unchanged /\ SameRecords)
    => ( /\ \A r \in DocRecs(2) : r.alloc => r \in Range(Recs(fileobjects_unchanged))
         /\ fileobjects_changed = << >>
         /\ NewColl = << >>
         /\ fileobjects_deleted = << >>
         /\ PlaceholderColl = << >>
         /\ fileobjects_renamed = << >> )

\* C3: two different paths whose documents hold the same records, no two
\* allocated and no two unallocated files of a document sharing an identity
\* key: with retain_unchanged, every allocated file of the second document
\* that the name filter lets through is unchanged, and nothing is changed,
\* new, deleted or renamed.
C3_IdentityStable ==
    ( /\ Returned /\ cfg.retain_unchanged /\ SameRecords
      /\ post # pre
      /\ UniqueAllocKeys(2) /\ UniqueUnallocKeys(2) )
    => AllUnchanged

\* Identical documents of two files, one allocated and one not, and one more
\* that the name filter drops or that lies in a volume.
C3_Witness ==
    /\ Returned /\ cfg.retain_unchanged /\ SameRecords /\ post # pre
    /\ UniqueAllocKeys(2) /\ UniqueUnallocKeys(2)
    /\ \E r1, r2 \in DocRecs(2) : r1.alloc /\ ~r2.alloc
    /\ Len(fileobjects_unchanged) = 2

----------------------------------------------------------------------------
(* C4 and C5 *)

AfterRename == pc \in { "inode", "unalloc", "output", "done" }

\* The (partition, inode) pairs of the keys of a dict.
InodeGroups(dict) == { << dict[j].k[1], dict[j].k[2] >> : j \in 1..Len(dict) }

\* The file objects a dict holds under (partition, inode) g.
InGroup(dict, g) ==
    { dict[j].v : j \in { j \in 1..Len(dict) : << dict[j].k[1], dict[j].k[2] >> = g } }

LeftOld(g) == InGroup(direct_left.old_fis, g)

LeftNew(g) == InGroup(direct_left.new_fis, g)

LeftGroups == InodeGroups(direct_left.old_fis) \cup InodeGroups(direct_left.new_fis)

\* Exactly one file object of each side is left at g after the direct
\* lookups, and their SHA-1 values agree if that is required.
RenameCandidate(g) ==
    /\ Cardinality(LeftOld(g)) = 1
    /\ Cardinality(LeftNew(g)) = 1
    /\ cfg.rename_requires_hash => TheOne(LeftOld(g)).sha1 = TheOne(LeftNew(g)).sha1

IsRenamed(b, a) ==
    /\ \E e \in Range(fileobjects_renamed) : e.rec = b /\ e.orig = a
    /\ b \notin Range(NewColl)
    /\ a \notin Range(PlaceholderColl)
    /\ Returned =>
         /\ \E c \in Range(d) : c.rec = b /\ c.orig = a /\ "renamed" \in c.annos
         /\ \A c \in Range(d) : c.rec = b => "new" \notin c.annos
         /\ \A c \in Range(d) : c.orig = a => c.rec # NoRec

\* C4: once the rename pass has run, the two file objects of every
\* one-to-one (partition, inode) group left by the direct lookups (with equal
\* SHA-1 values if rename_requires_hash) are linked, the second-document
\* object is in fileobjects_renamed and is returned annotated 'renamed', and
\* neither is returned as new or as a deletion placeholder.
C4_Renamed ==
    AfterRename =>
        \A g \in LeftGroups :
            RenameCandidate(g) => IsRenamed(TheOne(LeftNew(g)), TheOne(LeftOld(g)))

\* A returned rename whose two sides differ in SHA-1, rename_requires_hash off.
C4_Witness ==
    /\ Returned
    /\ \E g \in LeftGroups :
         /\ RenameCandidate(g)
         /\ TheOne(LeftOld(g)).sha1 # TheOne(LeftNew(g)).sha1
         /\ IsRenamed(TheOne(LeftNew(g)), TheOne(LeftOld(g)))

\* Two file objects of each side are left at g after the direct lookups.
TwoToTwo(g) == Cardinality(LeftOld(g)) = 2 /\ Cardinality(LeftNew(g)) = 2

NotRenamed(g) ==
    \A e \in Range(fileobjects_renamed) : e.rec \notin LeftNew(g) /\ e.orig \notin LeftOld(g)

NewAndDeleted(g) ==
    /\ \A b \in LeftNew(g) :
         \E c \in Range(d) : c.rec = b /\ c.orig = NoRec /\ c.annos = { "new" }
    /\ \A a \in LeftOld(g) :
         \E c \in Range(d) : c.rec = NoRec /\ c.orig = a /\ c.annos = { "deleted" }

\* C5 as claimed: a two-to-two group is not renamed, and its objects are
\* returned as two new objects and two deletion placeholders.
C5_AsClaimed ==
    \A g \in LeftGroups :
        TwoToTwo(g) =>
            /\ AfterRename => NotRenamed(g)
            /\ Returned => NewAndDeleted(g)

\* No file of the other document can be paired with a file of g by a later
\* pass: none has the (partition, filename) of one of them, and no
\* unallocated file of the second document has the identity key of one.
NoLaterPairing(g) ==
    /\ \A b \in LeftNew(g) : \A r \in DocRecs(1) :
         r.alloc => << KeyOf(r)[1], KeyOf(r)[3] >> # << KeyOf(b)[1], KeyOf(b)[3] >>
    /\ \A a \in LeftOld(g) : \A r \in DocRecs(2) :
         /\ r.alloc => << KeyOf(r)[1], KeyOf(r)[3] >> # << KeyOf(a)[1], KeyOf(a)[3] >>
         /\ ~r.alloc => KeyOf(r) # KeyOf(a)

\* Each object of g is new, a placeholder's original, or paired by the
\* inode pass or the unallocated pass.
NewDeletedOrPairedLater(g) ==
    /\ \A b \in LeftNew(g) :
         \/ \E c \in Range(d) : c.rec = b /\ c.orig = NoRec /\ c.annos = { "new" }
         \/ b \in Range(Recs(fileobjects_changed))
    /\ \A a \in LeftOld(g) :
         \/ \E c \in Range(d) : c.rec = NoRec /\ c.orig = a /\ c.annos = { "deleted" }
         \/ a \in Range(Origs(fileobjects_changed))
         \/ a \in Range(Origs(fileobjects_deleted))

\* C5: the rename pass pairs no object of a two-to-two group; each of the
\* four is returned as new or as a deletion placeholder unless the inode pass
\* or the unallocated pass pairs it, and all four are when no file of the
\* other document shares a (partition, filename) or an identity key with them.
C5_TwoToTwo ==
    \A g \in LeftGroups :
        TwoToTwo(g) =>
            /\ AfterRename => NotRenamed(g)
            /\ Returned => NewDeletedOrPairedLater(g)
            /\ (Returned /\ NoLaterPairing(g)) => NewAndDeleted(g)

\* A returned two-to-two group: two new objects, two placeholders.
C5_Witness ==
    /\ Returned
    /\ \E g \in LeftGroups : TwoToTwo(g) /\ NoLaterPairing(g) /\ NewAndDeleted(g)
    /\ Len(d) = 4

----------------------------------------------------------------------------
(* C6 and C7 *)

AfterInode == pc \in { "unalloc", "output", "done" }

AfterUnalloc == pc \in { "output", "done" }

\* What the rename pass left of the maps the direct lookups left.
RenameLeftOld ==
    SelectSeq(direct_left.old_fis, LAMBDA e : e.v \notin Range(Origs(fileobjects_renamed)))

RenameLeftNew ==
    SelectSeq(direct_left.new_fis, LAMBDA e : e.v \notin Range(Recs(fileobjects_renamed)))

\* The (partition, filename) of a key.
PathOf(k) == << k[1], k[3] >>

\* The entries of a dict whose keys have (partition, filename) h, in order.
WithPath(dict, h) == SelectSeq(dict, LAMBDA e : PathOf(e.k) = h)

PathGroups == { PathOf(RenameLeftNew[j].k) : j \in 1..Len(RenameLeftNew) }

\* The pairs the inode pass made: the second-document object was left in
\* new_fis by the direct lookups and by the rename pass.
InodePaired ==
    SelectSeq(fileobjects_changed, LAMBDA e : e.rec \in Range(Values(RenameLeftNew)))

\* The pairs the unallocated pass made.
UnallocPaired ==
    SelectSeq(fileobjects_changed \o fileobjects_unchanged, LAMBDA e : ~e.rec.alloc)
      \o fileobjects_deleted

\* The files of document n that are read into new_fis_unalloc under key k.
UnallocWithKey(n, k) ==
    { r \in DocRecs(n) :
        ~r.alloc /\ ~ignore_filename_function(r.filename) /\ KeyOf(r) = k }

RenameOneToOne ==
    AfterRename =>
        \A e \in Range(fileobjects_renamed) :
            LET g == << KeyOf(e.rec)[1], KeyOf(e.rec)[2] >>
            IN LeftOld(g) = { e.orig } /\ LeftNew(g) = { e.rec }

UnallocOneToOne ==
    AfterUnalloc =>
        \A e \in Range(UnallocPaired) :
            /\ UnallocWithKey(2, KeyOf(e.rec)) = { e.rec }
            /\ IF e.orig.alloc
               THEN UnallocWithKey(1, KeyOf(e.rec)) = { }
               ELSE UnallocWithKey(1, KeyOf(e.rec)) = { e.orig }

InodeOneToOne ==
    AfterInode =>
        \A e \in Range(InodePaired) :
            LET h == PathOf(KeyOf(e.rec))
            IN /\ Values(WithPath(RenameLeftOld, h)) = << e.orig >>
               /\ Values(WithPath(RenameLeftNew, h)) = << e.rec >>

\* C6 as claimed: each of the three passes pairs two file objects only if
\* its grouping key holds one object on each side.
C6_AsClaimed == RenameOneToOne /\ InodeOneToOne /\ UnallocOneToOne

\* The inode pass pairs, for a (partition, filename) left on both sides, the
\* objects under the last such key of each map.
InodeLastOfGroup ==
    AfterInode =>
        /\ \A e \in Range(InodePaired) :
             LET h == PathOf(KeyOf(e.rec))
                 olds == Values(WithPath(RenameLeftOld, h))
                 news == Values(WithPath(RenameLeftNew, h))
             IN olds # << >> /\ e.orig = olds[Len(olds)] /\ e.rec = news[Len(news)]
        /\ \A h \in PathGroups :
             WithPath(RenameLeftOld, h) # << >>
               => \E e \in Range(InodePaired) : PathOf(KeyOf(e.rec)) = h

\* C6: the rename pass and the unallocated pass pair two file objects only
\* if the grouping key holds one object on each side; the inode pass pairs
\* every (partition, filename) left on both sides, taking the object under
\* the last such key of each map when there are several.
C6_Ambiguity == RenameOneToOne /\ UnallocOneToOne /\ InodeLastOfGroup

\* The inode pass has paired one of two first-document objects of a path;
\* the other is left for a deletion placeholder.
C6_Witness ==
    /\ AfterUnalloc
    /\ \E e \in Range(InodePaired) :
         LET olds == Values(WithPath(RenameLeftOld, PathOf(KeyOf(e.rec))))
         IN Len(olds) = 2 /\ e.orig = olds[2] /\ olds[1] \in Range(PlaceholderColl)

----------------------------------------------------------------------------
(* C8 *)

\* No file of the second document, allocated or not, has the identity key,
\* the (partition, inode) or the (partition, filename) of a.
MatchesNothing(a) ==
    \A r \in DocRecs(2) :
        /\ KeyOf(r) # KeyOf(a)
        /\ << KeyOf(r)[1], KeyOf(r)[2] >> # << KeyOf(a)[1], KeyOf(a)[2] >>
        /\ PathOf(KeyOf(r)) # PathOf(KeyOf(a))

\* a is the original of exactly one returned object, a fresh file object
\* annotated 'deleted' only, without diffs, in the container of a's partition.
OnePlaceholder(a) ==
    /\ Count(Origs(FileChildrenOf(d)), a) = 1
    /\ \A c \in Range(d) :
         c.orig = a =>
             /\ c.rec = NoRec
             /\ c.annos = { "deleted" }
             /\ c.diffs = { }
             /\ c.container = a.partition

\* C8 as claimed: every allocated file of the first document that matches
\* nothing in the second is returned as one placeholder.
C8_AsClaimed ==
    Returned =>
        \A a \in DocRecs(1) : (a.alloc /\ MatchesNothing(a)) => OnePlaceholder(a)

\* a is read into new_fis and not overwritten there by a later file of the
\* first document with the same identity key.
KeptInMap(a) ==
    /\ ~ignore_filename_function(a.filename)
    /\ \A r \in DocRecs(1) : (r.alloc /\ KeyOf(r) = KeyOf(a)) => r.idx <= a.idx

\* C8: in a returned result, every allocated file of the first document that
\* the name filter lets through, that is the last allocated file of its
\* identity key in that document, and that matches nothing in the second
\* document, is the original of exactly one returned object: a fresh file
\* object annotated 'deleted' only, without diffs, appended to the container
\* of the original's partition.
C8_TrueDeletion ==
    Returned =>
        \A a \in DocRecs(1) :
            (a.alloc /\ KeptInMap(a) /\ MatchesNothing(a)) => OnePlaceholder(a)

\* A placeholder returned inside a volume, the second document not empty.
C8_Witness ==
    /\ Returned
    /\ DocRecs(2) # { }
    /\ \E a \in DocRecs(1) :
         /\ a.alloc /\ KeptInMap(a) /\ MatchesNothing(a) /\ OnePlaceholder(a)
         /\ a.partition = 1

----------------------------------------------------------------------------
(* C9 and C10 *)

\* The diffs are not empty and none is in the mask set.
MaskedOut(e) == e.diffs # { } /\ e.diffs \cap diff_mask_set = { }

DirectLookupHits ==
    /\ AtEvent /\ Event.type = "file"
    /\ ~ignore_filename_function(Event.filename)
    /\ VolumeKnown(Event)
    /\ Event.alloc
    /\ InfilePath # pre
    /\ Has(old_fis, KeyOf(FileObj(Event)))

DirectPair == Linked(FileObj(Event), Get(old_fis, KeyOf(FileObj(Event))))

UnallocContentPaired ==
    SelectSeq(fileobjects_changed \o fileobjects_unchanged,
              LAMBDA e : ~e.rec.alloc /\ ~e.orig.alloc)

\* The diffs after mask filtering: narrowed to the mask set under
\* idifference, as they are under all.
MaskFiltered(diffs) ==
    IF cfg.diff_mode = "idifference" THEN diffs \cap diff_mask_set ELSE diffs

\* The unallocated files of the key of r are one in each document.
UnallocOneEach(r) ==
    /\ Cardinality(UnallocWithKey(1, KeyOf(r))) = 1
    /\ UnallocWithKey(2, KeyOf(r)) = { r }

\* C10: once the unallocated pass has run, the unallocated file of the
\* second document under a key with one unallocated file in each document is
\* linked to the first document's; it is in fileobjects_changed if and only
\* if its diffs after mask filtering are not empty; otherwise it is in
\* fileobjects_unchanged if and only if retain_unchanged.
C10_AsClaimed ==
    AfterUnalloc =>
        \A r \in DocRecs(2) :
            (~r.alloc /\ ~ignore_filename_function(r.filename) /\ UnallocOneEach(r))
            => LET a == TheOne(UnallocWithKey(1, KeyOf(r)))
                   lk == Linked(r, a)
               IN /\ lk \in Range(fileobjects_changed) <=> MaskFiltered(lk.diffs) # { }
                  /\ lk \in Range(fileobjects_unchanged)
                       <=> (MaskFiltered(lk.diffs) = { } /\ cfg.retain_unchanged)

----------------------------------------------------------------------------
(* C11 *)

\* The files of the first document that were in old_fis when the unallocated
\* pass began: those still there, and the originals the pass took out.
LiveAtUnalloc == Range(Values(old_fis)) \cup Range(Origs(fileobjects_deleted))

\* C11 as claimed: once the unallocated pass has run, the only unallocated
\* file of its key in the second document, if the pass did not pair it with
\* an unallocated file and its key was in old_fis when the pass began, is
\* linked to the file of that key, is in fileobjects_deleted and is returned
\* annotated 'deleted'; the original is out of old_fis and is the original of
\* no placeholder.  Whatever old_fis_unalloc holds for the key.
C11_AsClaimed ==
    AfterUnalloc =>
        \A r \in DocRecs(2) :
            \A a \in LiveAtUnalloc :
                ( /\ ~r.alloc /\ ~ignore_filename_function(r.filename)
                  /\ UnallocWithKey(2, KeyOf(r)) = { r }
                  /\ Cardinality(UnallocWithKey(1, KeyOf(r))) # 1
                  /\ KeyOf(a) = KeyOf(r) )
                => /\ Linked(r, a) \in Range(fileobjects_deleted)
                   /\ ~Has(old_fis, KeyOf(r))
                   /\ Returned =>
                        /\ \E c \in Range(d) :
                             c.rec = r /\ c.orig = a /\ "deleted" \in c.annos
                        /\ \A c \in Range(d) : c.orig = a => c.rec = r

----------------------------------------------------------------------------
(* C12 *)

AtOutput == pc \in { "output", "done" }

\* The volume objects of document n, in stream order.
DocVolumes(n) ==
    LET doc == docs[IF n = 1 THEN pre ELSE post]
        js == { j \in 1..Len(doc) : doc[j].type = "volume" /\ doc[j].ev = "begin" }
    IN { [ snap |-> n, idx |-> j, offset |-> doc[j].offset, ftype |-> doc[j].ftype ] :
         j \in js }

\* The (offset, lower-cased file system type) of a volume object.
VolumeKey(v) == << v.offset, IF v.ftype = NoFtype THEN NoFtype ELSE Lower(v.ftype) >>

VolumeKeys(n) == { VolumeKey(v) : v \in DocVolumes(n) }

UniqueVolumeKeys(n) ==
    \A v, w \in DocVolumes(n) : VolumeKey(v) = VolumeKey(w) => v = w

KeySet(dict) == { dict[j].k : j \in 1..Len(dict) }

\* The returned volume objects.
VolumeChildrenOf(out) == SelectSeq(out, LAMBDA c : c.kind = "volume")

\* C12: with unique volume keys in each document, when the output stage
\* begins the keys of matched_volumes are those of both documents, the keys
\* of new_volumes those of the second document only and the keys of
\* old_volumes those of the first only; a matched volume is the second
\* document's, linked to the first document's volume of its key; in the
\* result a new volume is annotated 'new' only, a volume left in old_volumes
\* 'deleted' only, and a matched volume 'modified' if and only if its diffs
\* are not empty, and nothing else.
C12_VolumeMatching ==
    (AtOutput /\ UniqueVolumeKeys(1) /\ UniqueVolumeKeys(2)) =>
        /\ KeySet(matched_volumes) = VolumeKeys(1) \cap VolumeKeys(2)
        /\ KeySet(new_volumes) = VolumeKeys(2) \ VolumeKeys(1)
        /\ KeySet(old_volumes) = VolumeKeys(1) \ VolumeKeys(2)
        /\ \A e \in Range(matched_volumes) :
             /\ e.v.vol \in DocVolumes(2) /\ VolumeKey(e.v.vol) = e.k
             /\ e.v.orig \in DocVolumes(1) /\ VolumeKey(e.v.orig) = e.k
        /\ \A e \in Range(new_volumes) : e.v.vol \in DocVolumes(2) /\ VolumeKey(e.v.vol) = e.k
        /\ \A e \in Range(old_volumes) : e.v.vol \in DocVolumes(1) /\ VolumeKey(e.v.vol) = e.k
        /\ Returned =>
             /\ Len(VolumeChildrenOf(d)) = Cardinality(VolumeKeys(1) \cup VolumeKeys(2))
             /\ \A c \in Range(VolumeChildrenOf(d)) :
                  c.annos =
                    IF VolumeKey(c.vol) \in KeySet(new_volumes) THEN { "new" }
                    ELSE IF VolumeKey(c.vol) \in KeySet(old_volumes) THEN { "deleted" }
                    ELSE IF c.diffs # { } THEN { "modified" } ELSE { }

\* A result with a new volume, a deleted one, and a matched one that differs.
C12_Witness ==
    /\ Returned /\ UniqueVolumeKeys(1) /\ UniqueVolumeKeys(2)
    /\ \E c1, c2, c3 \in Range(VolumeChildrenOf(d)) :
         /\ c1.annos = { "new" }
         /\ c2.annos = { "deleted" }
         /\ c3.annos = { "modified" } /\ c3.origvol \in DocVolumes(1)

----------------------------------------------------------------------------
(* C13, C14 and C15 *)

\* The function has returned or raised.
Ended == pc \in { "done", "raised" }

\* C13 as claimed: when a document holds a volume key twice, the function
\* logs a warning, raises nothing and returns a result.
C13_AsClaimed ==
    (Ended /\ (~UniqueVolumeKeys(1) \/ ~UniqueVolumeKeys(2))) =>
        /\ Returned
        /\ exc = NoException
        /\ warnings > 0

\* No two keys of volumes_encounter_order have the same ordinal.
OrdinalsInjective ==
    \A i, j \in 1..Len(volumes_encounter_order) :
        volumes_encounter_order[i].v = volumes_encounter_order[j].v => i = j

\* The ordinal-collision ValueError of line 438 (the one of line 88 needs a
\* diff_mode that is not expected).
CollisionRaised ==
    pc = "raised" /\ exc = "ValueError" /\ cfg.diff_mode \in _expected_diff_modes

\* C14 as claimed: in every state volumes_encounter_order is injective and
\* the collision ValueError has not been raised, and no step changes the
\* ordinal of a key.
C14_AsClaimed ==
    /\ [](OrdinalsInjective /\ ~CollisionRaised)
    /\ [][ \A j \in 1..Len(volumes_encounter_order) :
             /\ Has(volumes_encounter_order', volumes_encounter_order[j].k)
             /\ Get(volumes_encounter_order', volumes_encounter_order[j].k)
                  = volumes_encounter_order[j].v ]_vars

\* C15 as claimed: the returned volume objects are in ascending encounter
\* ordinal.
C15_AsClaimed ==
    Returned =>
        LET vs == VolumeChildrenOf(d)
        IN \A i, j \in 1..Len(vs) : i < j => vs[i].ord < vs[j].ord

\* 1 for a new volume, 2 for a matched one, 3 for a deleted one.
StatusRank(c) ==
    IF "new" \in c.annos THEN 1 ELSE IF "deleted" \in c.annos THEN 3 ELSE 2

\* C15: the returned volume objects are the new volumes, then the matched
\* volumes, then the deleted volumes.  With unique volume keys in each
\* document, the new volumes and the matched volumes are in the order of the
\* second document and the deleted volumes in the order of the first; the
\* encounter ordinals ascend among the new and among the deleted volumes.
C15_StatusOrder ==
    Returned =>
        LET vs == VolumeChildrenOf(d)
        IN \A i, j \in 1..Len(vs) :
             i < j =>
               /\ StatusRank(vs[i]) <= StatusRank(vs[j])
               /\ (UniqueVolumeKeys(1) /\ UniqueVolumeKeys(2)
                     /\ StatusRank(vs[i]) = StatusRank(vs[j]))
                  => /\ vs[i].vol.idx < vs[j].vol.idx
                     /\ StatusRank(vs[i]) # 2 => vs[i].ord < vs[j].ord

\* A new volume returned first, a deleted one last, a matched one between
\* them, with the encounter ordinals 3, 1, 2.
C15_Witness ==
    /\ Returned /\ UniqueVolumeKeys(1) /\ UniqueVolumeKeys(2)
    /\ LET vs == VolumeChildrenOf(d)
       IN /\ Len(vs) = 3
          /\ << StatusRank(vs[1]), StatusRank(vs[2]), StatusRank(vs[3]) >> = << 1, 2, 3 >>
          /\ << vs[1].ord, vs[2].ord, vs[3].ord >> = << 3, 1, 2 >>

----------------------------------------------------------------------------
(* C16 *)

\* The file of the input that a returned file object stands for: the object
\* itself, or the original of a placeholder.
RoutedBy(c) == IF c.rec # NoRec THEN c.rec ELSE c.orig

\* C16: with unique volume keys in each document, no KeyError is raised, and
\* in a returned result every file object is one child, appended to the
\* DFXMLObject if its partition (a placeholder's: its original's) is None and
\* otherwise to the one returned volume whose encounter ordinal is that
\* partition, which is the volume of the key the file was read under; no
\* object is returned twice, and every volume comes before every file.
C16_Routing ==
    (Ended /\ UniqueVolumeKeys(1) /\ UniqueVolumeKeys(2)) =>
        /\ exc # "KeyError"
        /\ Returned =>
             LET fs == FileChildrenOf(d)
                 vs == VolumeChildrenOf(d)
             IN /\ \A c \in Range(fs) :
                     LET r == RoutedBy(c)
                     IN /\ c.container = r.partition
                        /\ (c.container = 0) <=> (r.vol = NoVol)
                        /\ c.container # 0 =>
                             /\ Cardinality({ j \in 1..Len(vs) : vs[j].ord = c.container }) = 1
                             /\ \A v \in Range(vs) :
                                  v.ord = c.container
                                    => VolumeKey(v.vol) = << r.vol[1], Lower(r.vol[2]) >>
                /\ \A i, j \in 1..Len(fs) : RoutedBy(fs[i]) = RoutedBy(fs[j]) => i = j
                /\ \A i, j \in 1..Len(d) :
                     (i < j /\ d[i].kind = "file") => d[j].kind = "file"

\* A placeholder inside a deleted volume, a new file inside a new volume and
\* a file outside any volume.
C16_Witness ==
    /\ Returned /\ UniqueVolumeKeys(1) /\ UniqueVolumeKeys(2)
    /\ \E c1, c2, c3 \in Range(FileChildrenOf(d)) :
         /\ c1.rec = NoRec /\ c1.container = 1
         /\ c2.rec # NoRec /\ c2.container = 2
         /\ c3.container = 0

----------------------------------------------------------------------------
(* C17 *)

StatusAnnos == { "new", "deleted", "renamed", "changed", "modified", "unchanged" }

\* The statuses of a returned object, 'changed' and 'modified' counting as
\* one.
Statuses(c) ==
    { IF a = "modified" THEN "changed" ELSE a : a \in c.annos \cap StatusAnnos }

\* C17 as claimed: every returned file object has exactly one status; one of
\* fileobjects_renamed has 'renamed' only, and one of fileobjects_unchanged
\* has 'unchanged'.
C17_AsClaimed ==
    Returned =>
        \A c \in Range(FileChildrenOf(d)) :
            /\ Cardinality(Statuses(c)) = 1
            /\ c.rec \in Range(Recs(fileobjects_renamed)) => Statuses(c) = { "renamed" }
            /\ c.rec \in Range(Recs(fileobjects_unchanged)) => "unchanged" \in c.annos

\* The annotations the differences call for: 'modified' for a content hash,
\* 'changed' for anything else.
DiffAnnos(diffs) ==
    (IF diffs \cap { "md5", "sha1", "sha256" } # { } THEN { "modified" } ELSE { })
      \cup (IF diffs \ { "md5", "sha1", "sha256" } # { } THEN { "changed" } ELSE { })

\* C17: the annotations of a returned file object, 'matched' aside, are set
\* by the collection it comes from: 'new' alone for what is left of the
\* second document; 'deleted' alone for a placeholder; for an object of
\* fileobjects_deleted 'deleted', with 'changed' and 'modified' as its diffs
\* call for and 'renamed' if the file name differs; for one of
\* fileobjects_renamed 'renamed' and 'changed', with 'modified' if a content
\* hash differs; for one of fileobjects_changed 'changed' or 'modified' or both
\* as its diffs call for, at least one; for one of fileobjects_unchanged
\* nothing.  No object is annotated 'unchanged'.
C17_Annotations ==
    Returned =>
        \A c \in Range(FileChildrenOf(d)) :
            LET st == c.annos \ { "matched" }
            IN /\ c.rec = NoRec => st = { "deleted" }
               /\ c.rec \in Range(NewColl) => st = { "new" }
               /\ c.rec \in Range(Recs(fileobjects_deleted)) =>
                    st = { "deleted" } \cup DiffAnnos(c.diffs)
                           \cup (IF "filename" \in c.diffs THEN { "renamed" } ELSE { })
               /\ c.rec \in Range(Recs(fileobjects_renamed)) =>
                    /\ st = { "renamed" } \cup DiffAnnos(c.diffs)
                    /\ "changed" \in st
               /\ c.rec \in Range(Recs(fileobjects_changed)) =>
                    st = DiffAnnos(c.diffs) /\ st # { }
               /\ c.rec \in Range(Recs(fileobjects_unchanged)) => st = { }

\* A renamed object whose content differs too, and an unchanged one, returned.
C17_Witness ==
    /\ Returned
    /\ \E c1, c2 \in Range(FileChildrenOf(d)) :
         /\ c1.rec \in Range(Recs(fileobjects_renamed))
         /\ c1.annos \ { "matched" } = { "renamed", "changed", "modified" }
         /\ c2.rec \in Range(Recs(fileobjects_unchanged))
         /\ c2.annos \ { "matched" } = { }

----------------------------------------------------------------------------
(* C18 *)

\* The diffs without the ignored properties, narrowed to the mask set under
\* idifference.
EffectiveDiff(diffs) == MaskFiltered(diffs \ cfg.ignore_properties)

\* A returned object of the second document that has an original.
IsPairedChild(c) == c.kind = "file" /\ c.rec # NoRec /\ c.orig # NoRec

\* C18 as claimed: a returned object with an original is annotated
\* 'modified' if and only if its effective diff holds a content hash, and
\* 'changed' if and only if it holds anything else.
C18_AsClaimed ==
    Returned =>
        \A c \in Range(d) :
            IsPairedChild(c) =>
                /\ "modified" \in c.annos
                     <=> EffectiveDiff(c.diffs) \cap { "md5", "sha1", "sha256" } # { }
                /\ "changed" \in c.annos
                     <=> EffectiveDiff(c.diffs) \ { "md5", "sha1", "sha256" } # { }

----------------------------------------------------------------------------
(* C19 *)

\* The event at hand is an allocated file of the second document.
AtSecondAllocated == AtEvent /\ Event.type = "file" /\ Event.alloc /\ infile = 2

\* What C19 has the step of such a file do when its key is in old_fis.
PairedAndClassified ==
    LET key == KeyOf(FileObj(Event))
        lk == Linked(FileObj(Event), Get(old_fis, key))
    IN /\ ~Has(old_fis', key)
       /\ new_fis' = new_fis
       /\ IF EffectiveDiff(lk.diffs) # { }
          THEN /\ fileobjects_changed' = Append(fileobjects_changed, lk)
               /\ fileobjects_unchanged' = fileobjects_unchanged
          ELSE /\ fileobjects_changed' = fileobjects_changed
               /\ fileobjects_unchanged' =
                    IF cfg.retain_unchanged THEN Append(fileobjects_unchanged, lk)
                    ELSE fileobjects_unchanged

\* C19 as claimed: every step that reads an allocated file of the second
\* document whose key is in old_fis pairs and classifies it.
C19_AsClaimed ==
    [][ (AtSecondAllocated /\ Has(old_fis, KeyOf(FileObj(Event))))
        => PairedAndClassified ]_vars

\* A returned object paired by a direct lookup: both files allocated, under
\* one identity key.
IsDirectChild(c) ==
    IsPairedChild(c) /\ c.rec.alloc /\ c.orig.alloc /\ KeyOf(c.rec) = KeyOf(c.orig)

\* C19: when pre and post are different paths, every step that reads an
\* allocated file of the second document that the name filter lets through
\* and whose key is in old_fis takes the file of that key out of old_fis,
\* links it as the original, and appends the object to fileobjects_changed if
\* its effective diff is not empty, to fileobjects_unchanged if it is empty
\* and retain_unchanged, and to nothing otherwise; without retain_unchanged no
\* object of a direct lookup with an empty effective diff is returned.
C19_DirectLookup ==
    /\ [][ ( /\ AtSecondAllocated
             /\ pre # post
             /\ ~ignore_filename_function(Event.filename)
             /\ Has(old_fis, KeyOf(FileObj(Event))) )
           => PairedAndClassified ]_vars
    /\ [] ( ~cfg.retain_unchanged =>
              /\ fileobjects_unchanged = << >>
              /\ \A c \in Range(d) :
                   IsDirectChild(c) => EffectiveDiff(c.diffs) # { } )

\* Without retain_unchanged and under idifference, a result returned for a
\* file that differs from the first document's in uid only: neither it nor a
\* placeholder for its original is returned.
C19_Witness ==
    /\ Returned /\ pre # post
    /\ ~cfg.retain_unchanged /\ cfg.diff_mode = "idifference"
    /\ \E a \in DocRecs(1), b \in DocRecs(2) :
         /\ KeyOf(a) = KeyOf(b) /\ a.uid # b.uid /\ a.sha1 = b.sha1
         /\ ~ignore_filename_function(a.filename)
         /\ ~ignore_filename_function(b.filename)
         /\ \A c \in Range(d) : c.rec # b /\ c.orig # a
         /\ Len(docs[pre]) = 1 /\ Len(docs[post]) = 1

----------------------------------------------------------------------------
(* C20 *)

\* C20: a returned file object is annotated 'matched' if and only if
\* annotate_matches is set and the object is a file of the second document
\* with an original, which is so exactly for the objects of
\* fileobjects_deleted, fileobjects_renamed, fileobjects_changed and
\* fileobjects_unchanged, whatever their diffs; a new file and a placeholder
\* are never annotated 'matched'.
C20_Matched ==
    Returned =>
        \A c \in Range(FileChildrenOf(d)) :
            /\ "matched" \in c.annos <=> (cfg.annotate_matches /\ IsPairedChild(c))
            /\ IsPairedChild(c) <=> c.rec \in Range(Recs(Paired))
            /\ (c.rec = NoRec \/ c.rec \in Range(NewColl)) => "matched" \notin c.annos

\* With annotate_matches, a result with an unchanged object without diffs,
\* annotated 'matched', and a new file and a placeholder that are not.
C20_Witness ==
    /\ Returned /\ cfg.annotate_matches
    /\ \E c1, c2, c3 \in Range(FileChildrenOf(d)) :
         /\ c1.rec \in Range(Recs(fileobjects_unchanged))
         /\ c1.diffs = { } /\ c1.annos = { "matched" }
         /\ c2.rec \in Range(NewColl) /\ c2.annos = { "new" }
         /\ c3.rec = NoRec /\ c3.annos = { "deleted" }

----------------------------------------------------------------------------
(* C21 *)

\* One file object of each side is left at g after the direct lookups, and
\* their SHA-1 values differ.
HashMismatch(g) ==
    /\ Cardinality(LeftOld(g)) = 1
    /\ Cardinality(LeftNew(g)) = 1
    /\ TheOne(LeftOld(g)).sha1 # TheOne(LeftNew(g)).sha1

SameHashRenames ==
    \A e \in Range(fileobjects_renamed) : e.rec.sha1 = e.orig.sha1

\* C21 as claimed: with rename_requires_hash, every object of
\* fileobjects_renamed has the SHA-1 of its original, and the two objects of
\* a one-to-one group with different SHA-1 values are not renamed and are
\* returned as one new object and one deletion placeholder.
C21_AsClaimed ==
    cfg.rename_requires_hash =>
        /\ SameHashRenames
        /\ \A g \in LeftGroups :
             HashMismatch(g) =>
                 /\ AfterRename => NotRenamed(g)
                 /\ Returned => NewAndDeleted(g)

\* C21: with rename_requires_hash, every object of fileobjects_renamed has
\* the SHA-1 of its original; the rename pass pairs neither object of a
\* one-to-one group with different SHA-1 values; each of the two is returned
\* as new or as a deletion placeholder unless the inode pass or the
\* unallocated pass pairs it, and both are when no file of the other document
\* shares a (partition, filename) or an identity key with them.
C21_HashRenames ==
    cfg.rename_requires_hash =>
        /\ SameHashRenames
        /\ \A g \in LeftGroups :
             HashMismatch(g) =>
                 /\ AfterRename => NotRenamed(g)
                 /\ Returned => NewDeletedOrPairedLater(g)
                 /\ (Returned /\ NoLaterPairing(g)) => NewAndDeleted(g)

\* With rename_requires_hash, a one-to-one group with different SHA-1 values
\* returned as a new object and a placeholder.
C21_Witness ==
    /\ Returned /\ cfg.rename_requires_hash
    /\ \E g \in LeftGroups : HashMismatch(g) /\ NoLaterPairing(g) /\ NewAndDeleted(g)
    /\ Len(d) = 2

----------------------------------------------------------------------------
(* C22 *)

KeyProps == << "partition", "inode", "filename" >>

\* Two files agree on every component of the identity key that is not
\* ignored.
AgreeOnKept(a, b) ==
    \A j \in 1..3 : KeyProps[j] \notin cfg.ignore_properties => a[KeyProps[j]] = b[KeyProps[j]]

\* The ignored components of every key of a map are null.
NullIgnored(dict) ==
    \A e \in Range(dict) :
        /\ "partition" \in cfg.ignore_properties => e.k[1] = 0
        /\ "inode" \in cfg.ignore_properties => e.k[2] = 0
        /\ "filename" \in cfg.ignore_properties => e.k[3] = NoName

AllKeysNullIgnored ==
    /\ NullIgnored(old_fis) /\ NullIgnored(new_fis)
    /\ NullIgnored(old_fis_unalloc) /\ NullIgnored(new_fis_unalloc)

\* The second document has been read by the direct lookups.
AfterDirect == pc \in { "rename", "inode", "unalloc", "output", "done" } /\ pre # post

\* b was paired with a by the direct lookup: neither is left in the maps,
\* and b is changed if its effective diff is not empty, and otherwise not
\* changed, and unchanged if retain_unchanged.
DirectlyPaired(b, a) ==
    LET lk == Linked(b, a)
    IN /\ a \notin Range(Values(direct_left.old_fis))
       /\ b \notin Range(Values(direct_left.new_fis))
       /\ EffectiveDiff(lk.diffs) # { } => lk \in Range(fileobjects_changed)
       /\ EffectiveDiff(lk.diffs) = { } =>
            /\ b \notin Range(Recs(fileobjects_changed))
            /\ cfg.retain_unchanged => lk \in Range(fileobjects_unchanged)
       /\ b \notin Range(Recs(fileobjects_renamed))

\* C22 as claimed: the ignored components of every key are null, and once
\* the second document is read, every allocated file of the first document
\* and every allocated file of the second that agree on the components kept
\* are paired by the direct lookup.
C22_AsClaimed ==
    /\ AllKeysNullIgnored
    /\ pc \in { "rename", "inode", "unalloc", "output", "done" } =>
         \A a \in DocRecs(1), b \in DocRecs(2) :
             (a.alloc /\ b.alloc /\ AgreeOnKept(a, b)) => DirectlyPaired(b, a)

\* r is the only allocated file of its document that the name filter lets
\* through with the kept components of its key.
OnlyOfKey(r) ==
    /\ r.alloc
    /\ ~ignore_filename_function(r.filename)
    /\ \A r2 \in DocRecs(r.snap) :
         (r2.alloc /\ ~ignore_filename_function(r2.filename) /\ AgreeOnKept(r, r2))
           => r2 = r

\* C22: the ignored components of every key are null; when pre and post are
\* different paths, an allocated file of the first document and an allocated
\* file of the second that the name filter lets through, that agree on the
\* components kept and that are each the only such file of their document
\* with those components, are paired by the direct lookup, and the second is
\* not changed if no attribute outside ignore_properties differs.
C22_IgnoredDimensions ==
    /\ AllKeysNullIgnored
    /\ AfterDirect =>
         \A a \in DocRecs(1), b \in DocRecs(2) :
             (OnlyOfKey(a) /\ OnlyOfKey(b) /\ AgreeOnKept(a, b)) => DirectlyPaired(b, a)

\* With the inode ignored, files of two inodes and one name, paired by the
\* direct lookup and returned without diffs and annotations.
C22_Witness ==
    /\ Returned /\ cfg.ignore_properties = { "inode" }
    /\ \E a \in DocRecs(1), b \in DocRecs(2) :
         /\ OnlyOfKey(a) /\ OnlyOfKey(b) /\ AgreeOnKept(a, b) /\ a.inode # b.inode
         /\ DirectlyPaired(b, a)
         /\ \E c \in Range(d) : c.rec = b /\ c.orig = a /\ c.diffs = { } /\ c.annos = { }

----------------------------------------------------------------------------
(* C23 *)

\* The file names of the documents that name a pseudo-entry.
PseudoNames == { "d/.", "d/..", "$OrphanFiles" }

IsPseudo(r) == r # NoRec /\ r.filename \in PseudoNames

\* Every file object held anywhere: in a map, or in a list as the object or as
\* its original, or in the result.
HeldRecs ==
    Range(Values(old_fis)) \cup Range(Values(new_fis))
      \cup Range(Flatten(old_fis_unalloc)) \cup Range(Flatten(new_fis_unalloc))
      \cup Range(Recs(Paired)) \cup Range(Origs(Paired))
      \cup Range(Recs(FileChildrenOf(d))) \cup Range(Origs(FileChildrenOf(d)))

\* Everything but the position in the document.
AllButPos ==
    << infiles, pre, post, docs, cfg, pc, infile, old_fis, new_fis, old_fis_unalloc,
       new_fis_unalloc, old_volumes, new_volumes, matched_volumes,
       volumes_encounter_order, fileobjects_changed, fileobjects_unchanged,
       fileobjects_renamed, fileobjects_deleted, d, warnings, exc, direct_left >>

FileMaps == << old_fis, new_fis, old_fis_unalloc, new_fis_unalloc >>

\* The step of the record loop over a file.
AtFile == AtEvent /\ Event.type = "file"

\* C23: no file named as a pseudo-entry is ever held in a map, linked as an
\* original or put in the result; the step of the record loop over such a
\* file changes nothing but the position in the document, so what follows is
\* what follows without the file; the step over a file without a name stores
\* the file in a map.
C23_PseudoEntries ==
    /\ [](\A r \in HeldRecs : ~IsPseudo(r))
    /\ [][(AtFile /\ Event.filename \in PseudoNames) => UNCHANGED AllButPos]_vars
    /\ [][(AtFile /\ Event.filename = NoName) =>
            /\ FileMaps' # FileMaps
            /\ \E r \in HeldRecs' : r.filename = NoName /\ r.idx = pos + 1 /\ r.snap = infile]_vars

\* Returned from two documents with pseudo-entries, allocated and not, and a
\* file without a name in the second, which is the one file of the result.
C23_Witness ==
    /\ Returned /\ pre # post
    /\ \E a1, a2 \in DocRecs(1) : IsPseudo(a1) /\ a1.alloc /\ IsPseudo(a2) /\ ~a2.alloc
    /\ \E b1, b2 \in DocRecs(2) :
         /\ IsPseudo(b1) /\ b2.filename = NoName
         /\ Range(Recs(FileChildrenOf(d))) = { b2 }

----------------------------------------------------------------------------
(* C24 *)

AtVolume(ev) == AtEvent /\ Event.type = "volume" /\ Event.ev = ev

VolumeMaps == << old_volumes, new_volumes, matched_volumes, volumes_encounter_order >>

FileLists ==
    << fileobjects_changed, fileobjects_unchanged, fileobjects_renamed,
       fileobjects_deleted >>

\* C24: the step over the begin of a volume without a partition offset, in
\* either document, raises AttributeError and leaves the maps and the result
\* container as they are; nothing follows a raise, so nothing is returned;
\* the step over the end of a volume raises nothing and changes no map.
C24_MissingOffset ==
    /\ [][(AtVolume("begin") /\ Event.offset = NoOffset) =>
            /\ pc' = "raised" /\ exc' = "AttributeError"
            /\ UNCHANGED << VolumeMaps, FileMaps, FileLists, d >>]_vars
    /\ [][pc # "raised" /\ (pc' = "done" => exc = NoException)]_vars
    /\ [][AtVolume("end") =>
            /\ pc' = pc /\ exc' = exc
            /\ UNCHANGED << VolumeMaps, FileMaps, FileLists, d >>]_vars

\* Raised at a volume without an offset in the second document, after a
\* volume and its file of the first document were read, ends included.
C24_Witness ==
    /\ pc = "raised" /\ exc = "AttributeError" /\ pre # post
    /\ infile = 2 /\ pos > 0
    /\ docs[post][pos].type = "volume" /\ docs[post][pos].ev = "begin"
    /\ docs[post][pos].offset = NoOffset
    /\ Len(old_volumes) = 1 /\ Len(old_fis) = 1
    /\ \A j \in 1..Len(docs[pre]) : docs[pre][j].offset = NoOffset => docs[pre][j].type # "volume"

----------------------------------------------------------------------------
(* C25 *)

\* Nothing of either document has been read and no map, list or the result
\* container holds anything.
Untouched ==
    /\ infile = 1 /\ pos = 0
    /\ \A j \in 1..4 : FileMaps[j] = << >> /\ VolumeMaps[j] = << >> /\ FileLists[j] = << >>
    /\ d = << >>

\* C25: a call with a diff_mode other than 'all' and 'idifference' raises
\* ValueError as its first step, with nothing read and no map and no result
\* container touched, and goes no further; main raises, and does not call
\* the function, when the number of paths on the command line is not two.
C25_ConfigErrors ==
    /\ [][(pc = "start" /\ cfg.diff_mode \notin { "all", "idifference" }) =>
            pc' = "raised" /\ exc' = "ValueError" /\ Untouched /\ Untouched']_vars
    /\ [](cfg.diff_mode \notin { "all", "idifference" } =>
            pc \in { "start", "raised" } /\ Untouched)
    /\ [][(pc = "main" /\ Len(infiles) # 2) =>
            pc' = "raised" /\ exc' # NoException /\ Untouched']_vars
    /\ [](Len(infiles) # 2 => pc \in { "main", "raised" } /\ Untouched)

\* Raised by the call with diff_mode 'none' on two documents with files.
C25_Witness ==
    /\ pc = "raised" /\ exc = "ValueError" /\ cfg.diff_mode = "none"
    /\ Len(infiles) = 2 /\ Len(docs[pre]) = MaxLen /\ Len(docs[post]) = 1

\* Raised by main with one path on the command line.
C25_WitnessMain ==
    pc = "raised" /\ exc = "ValueError" /\ Len(infiles) = 1 /\ Len(docs[post]) = 1

----------------------------------------------------------------------------
(* C26 *)

\* The key of an offset and a file system type in any spelling of its
\* letters.
LowerKey(offset, ftype) == << offset, IF ftype = NoFtype THEN NoFtype ELSE Lower(ftype) >>

\* The keys of a volume map are lower-cased, lower-casing them again changes
\* nothing, and the volume objects are spelled as their documents spell them.
LowerKeyed(dict) ==
    \A e \in Range(dict) :
        /\ e.k = LowerKey(e.k[1], e.k[2])
        /\ e.k = VolumeKey(e.v.vol)
        /\ e.v.vol \in DocVolumes(e.v.vol.snap)

\* C26: what the record loop does with a volume and with a file of a volume
\* is a function of the offset and of the lower-cased file system type, so
\* another spelling of the type changes neither the map the key goes to, nor
\* the ordinal, nor the partition of the files; the keys are lower-cased and
\* lower-casing them again changes nothing; the volume objects keep the
\* spelling of their documents.
C26_CaseInsensitive ==
    /\ [](/\ LowerKeyed(old_volumes) /\ LowerKeyed(new_volumes)
          /\ LowerKeyed(matched_volumes)
          /\ \A e \in Range(volumes_encounter_order) : e.k = LowerKey(e.k[1], e.k[2]))
    /\ [][(AtVolume("begin") /\ Event.offset # NoOffset) =>
            LET k == LowerKey(Event.offset, Event.ftype)
            IN IF k \in KeySet(old_volumes)
               THEN /\ k \in KeySet(matched_volumes') /\ k \notin KeySet(old_volumes')
                    /\ UNCHANGED << new_volumes, volumes_encounter_order >>
               ELSE /\ k \in KeySet(new_volumes')
                    /\ UNCHANGED << old_volumes, matched_volumes >>
                    /\ Get(volumes_encounter_order', k) =
                         Len(new_volumes') + Len(old_volumes) + Len(matched_volumes)
                    /\ \A e \in Range(volumes_encounter_order) :
                         e.k # k => Get(volumes_encounter_order', e.k) = e.v]_vars
    /\ [][(AtFile /\ Event.filename \notin PseudoNames /\ Event.vol # NoVol /\ pc' # "raised") =>
            \E r \in HeldRecs' :
                /\ r.idx = pos + 1 /\ r.snap = infile
                /\ r.partition =
                     Get(volumes_encounter_order, LowerKey(Event.vol[1], Event.vol[2]))]_vars

\* A volume spelled NTFS in the first document and ntfs in the second, with a
\* file each: one key, one ordinal, the volumes matched with each its
\* spelling, the files of the same partition and paired.
C26_Witness ==
    /\ Returned
    /\ Len(volumes_encounter_order) = 1
    /\ \E c \in Range(VolumeChildrenOf(d)) : c.vol.ftype = "ntfs" /\ c.origvol.ftype = "NTFS"
    /\ \E c \in Range(FileChildrenOf(d)) :
         /\ c.rec.vol = << 0, "ntfs" >> /\ c.orig # NoRec /\ c.orig.vol = << 0, "NTFS" >>
         /\ c.rec.partition = 1 /\ c.orig.partition = 1

----------------------------------------------------------------------------
(* C27 *)

\* The attributes two records differ in.
Differing(r, o) == { p \in FileProps : r[p] # o[p] }

\* Every pair the function has linked, in the lists and in the result.
LinkedPairs ==
    Range(Paired) \cup { [ rec |-> c.rec, orig |-> c.orig, diffs |-> c.diffs ] :
                           c \in { c2 \in Range(d) : IsPairedChild(c2) } }

----------------------------------------------------------------------------
(* C30 *)

\* The place of a step in the order of the passes.
PassRank(p) ==
    CASE p = "main" -> 0 [] p = "start" -> 1 [] p = "infile" -> 2 [] p = "read" -> 3
      [] p = "rename" -> 4 [] p = "inode" -> 5 [] p = "unalloc" -> 6
      [] p = "output" -> 7 [] p = "done" -> 8 [] OTHER -> 9

\* The passes follow one another in the one order, or the function raises;
\* the record loop alone runs twice, once for each document.
InPassOrder ==
    \/ pc' = "raised"
    \/ PassRank(pc') = PassRank(pc) + 1
    \/ pc = "read" /\ pc' \in { "read", "infile", "done" }
    \/ pc' = pc

\* The file objects left in the four maps.
InMaps ==
    Range(Values(old_fis)) \cup Range(Values(new_fis))
      \cup Range(Flatten(old_fis_unalloc)) \cup Range(Flatten(new_fis_unalloc))

\* No paired object and no original of a pair is left in a map for a later
\* pass, and a pair once made stays as it is.
PairedOnce ==
    /\ [](InMaps \cap (Range(Recs(Paired)) \cup Range(Origs(Paired))) = { })
    /\ [][\A e \in Range(Paired) : e \in Range(Paired')]_vars

LiveRecs(n) == { r \in DocRecs(n) : r.alloc /\ ~ignore_filename_function(r.filename) }

\* a of the first document, b1 and b2 of the second: b1 has a's inode under
\* another name, b2 has a's name under another inode.
RenameAndNew(a, b1, b2) ==
    /\ a \in LiveRecs(1) /\ b1 \in LiveRecs(2) /\ b2 \in LiveRecs(2)
    /\ a.partition = b1.partition /\ a.inode = b1.inode /\ a.filename # b1.filename
    /\ a.partition = b2.partition /\ a.inode # b2.inode /\ a.filename = b2.filename

EmittedRenamed(b, a) ==
    \E c \in Range(d) : c.rec = b /\ c.orig = a /\ "renamed" \in c.annos

EmittedNew(b) ==
    \E c \in Range(d) : c.rec = b /\ c.orig = NoRec /\ c.annos = { "new" }

EmittedDeleted(b) ==
    \E c \in Range(d) : c.rec = b /\ "deleted" \in c.annos

\* a has been made the original of a pair by the rename pass or by the
\* inode pass.
ConsumedByRenameOrInode(a) ==
    /\ a \in Range(Values(direct_left.old_fis))
    /\ a \in Range(Origs(fileobjects_renamed)) \cup Range(Origs(fileobjects_changed))

\* u is a file of the second document, not allocated, with the key of a.
UnallocOfKey(u, a) == u \in DocRecs(2) /\ ~u.alloc /\ KeyOf(u) = KeyOf(a)

AloneLive(r) ==
    \A r2 \in LiveRecs(r.snap) :
        (r2.partition = r.partition /\ (r2.inode = r.inode \/ r2.filename = r.filename))
          => r2 = r

\* Document n has no live file with the (partition, inode) of r.
NoLiveOfInode(n, r) ==
    \A r2 \in LiveRecs(n) : ~(r2.partition = r.partition /\ r2.inode = r.inode)

----------------------------------------------------------------------------
(* C31 *)

\* The step of the record loop over an allocated file of the second input
\* that the name filter lets through and whose key is in old_fis.
AtSecondWithKnownKey ==
    /\ AtSecondAllocated
    /\ ~ignore_filename_function(Event.filename)
    /\ VolumeKnown(Event)
    /\ Has(old_fis, KeyOf(FileObj(Event)))

\* The record loop is at the end of the second input.
AtEndOfSecond == pc = "read" /\ infile = 2 /\ pos = Len(Stream)

\* C31 as claimed: while the first input is read nothing is compared and
\* nothing is put in a list or in the result; every allocated file of the
\* second input whose key is in old_fis is looked up and taken out of
\* old_fis, and the end of the second input is followed by the passes and
\* the output assembly, whether or not pre and post are the same string.
C31_AsClaimed ==
    /\ [][infile = 1 => UNCHANGED << FileLists, d >> /\ old_fis' = << >>]_vars
    /\ [][AtSecondWithKnownKey =>
            ~Has(old_fis', KeyOf(FileObj(Event))) /\ new_fis' = new_fis]_vars
    /\ [][AtEndOfSecond => pc' = "rename"]_vars
    /\ [][pc' = "done" => pc = "output"]_vars

====
